---------------------------- MODULE Spec2Model ----------------------------
(***************************************************************************)
(* Model of the SSTV encoder (src/src/sstv.rs, audio.rs, lib.rs, error.rs). *)
(*                                                                         *)
(* Numbers.  The program computes in f64; the model computes in integers:  *)
(*   - a frequency is an integer number of 1/FreqScale Hz (rounded down),  *)
(*   - a duration is an integer number of 1/DurScale ms (exact: no tone    *)
(*     of the program has more than four decimals of a millisecond),       *)
(*   - delta_length is an exact number of 1/CarryScale samples,            *)
(*   - a phase is a whole number of degrees (rounded down), and sin/cos    *)
(*     values are AmpScale times the true value, rounded, taken from the   *)
(*     table SinTable; asin is the inverse of that table,                  *)
(*   - a colour value (channel, Y, R-Y, B-Y) is a number of 1/ValScale.    *)
(* All intermediate products are kept below 2^31.                          *)
(***************************************************************************)
EXTENDS Integers, Sequences, FiniteSets, TLC

VARIABLES
    mode,                \* SstvModulator.mode
    sample_rate,         \* SstvModulator.sample_rate
    audio_processor,     \* SstvModulator.audio_processor: [samples, sample_rate]
    older_data,          \* SstvModulator.older_data  (sin of the last final phase)
    older_cos,           \* SstvModulator.older_cos   (cos of the last final phase)
    delta_length,        \* SstvModulator.delta_length (fractional-sample carry)
    processed_image,     \* SstvModulator.processed_image: None or an image
    processing_metadata, \* SstvModulator.processing_metadata: None or a record
    call,                \* the last call on the modulator: its arguments, a summary
                         \* of the state it found, and how it ended
    tone_log,            \* the tone requests of the last modulate_image run, in order
    calls,               \* how many calls were made on the modulator since new
    generator,           \* the result of the last AudioGenerator::new
    fit,                 \* Image Fitter arithmetic applied to one input (SpecFit)
    timer,               \* a full-size run followed tone by tone, counts only (SpecTiming)
    memory,              \* the result of the last check_memory_requirements (SpecMemory)
    carry,               \* the sample count and carry of a sequence of tones (SpecCarry)
    colour,              \* the tones of one row of a scan over every kind of pixel (SpecColour)
    complete             \* the outcome of the last process_sstv_complete (SpecComplete)

vars == <<mode, sample_rate, audio_processor, older_data, older_cos, delta_length,
          processed_image, processing_metadata, call, tone_log, calls, generator,
          fit, timer, memory, carry, colour, complete>>

modulator_vars == <<mode, sample_rate, audio_processor, older_data, older_cos,
                    delta_length, processed_image, processing_metadata, call, tone_log,
                    calls>>

\* Option::None; a value that is present (Some) is the record it holds.
None == [none |-> TRUE]

----------------------------------------------------------------------------
(* Units *)

FreqScale == 100
DurScale == 10000
CarryScale == 10000000
AmpScale == 10000
ValScale == 10000
PhaseRes == 360

Hz(f) == f * FreqScale
Ms(d) == d * DurScale
\* whole milliseconds and ten-thousandths: Ms4(1, 800) is 1.08 ms
Ms4(d, frac) == d * DurScale + frac

Min(a, b) == IF a <= b THEN a ELSE b
Max(a, b) == IF a >= b THEN a ELSE b
Abs(a) == IF a >= 0 THEN a ELSE -a

\* Rust's `as` cast from f64 to an integer type: truncation toward zero.
TruncDiv(a, d) == IF a >= 0 THEN a \div d ELSE -((-a) \div d)

\* floor(a * b / 10^8) for 0 <= b < 10^8 and |a| < 10^8, by long multiplication
\* in base 10^4 (no intermediate product reaches 2^31).
MulShift8(a, b) ==
    LET a1 == a \div 10000
        a0 == a % 10000
        b1 == b \div 10000
        b0 == b % 10000
        mid == a1 * b0 + a0 * b1
    IN  a1 * b1 + ((mid + ((a0 * b0) \div 10000)) \div 10000)

----------------------------------------------------------------------------
(* SstvMode *)

Modes == {"ScottieDx", "Robot36", "Pd120", "MartinM1"}

get_vis_code(m) ==
    CASE m = "ScottieDx" -> <<"1", "0", "0", "1", "1", "0", "0">>
      [] m = "Robot36"   -> <<"0", "0", "0", "1", "0", "0", "0">>
      [] m = "Pd120"     -> <<"1", "0", "1", "1", "1", "1", "1">>
      [] m = "MartinM1"  -> <<"0", "1", "0", "1", "1", "0", "0">>

get_dimensions(m) ==
    CASE m = "ScottieDx" -> <<320, 256>>
      [] m = "Robot36"   -> <<320, 240>>
      [] m = "Pd120"     -> <<640, 496>>
      [] m = "MartinM1"  -> <<320, 256>>

\* get_duration in milliseconds (269.6 s, 36.0 s, 120.0 s, 114.7 s).
get_duration_ms(m) ==
    CASE m = "ScottieDx" -> 269600
      [] m = "Robot36"   -> 36000
      [] m = "Pd120"     -> 120000
      [] m = "MartinM1"  -> 114700

----------------------------------------------------------------------------
(* sin, cos, asin on whole degrees *)

SinTable ==
    <<0, 175, 349, 523, 698, 872, 1045, 1219, 1392, 1564, 1736, 1908, 2079, 2250,
      2419, 2588, 2756, 2924, 3090, 3256, 3420, 3584, 3746, 3907, 4067, 4226, 4384,
      4540, 4695, 4848, 5000, 5150, 5299, 5446, 5592, 5736, 5878, 6018, 6157, 6293,
      6428, 6561, 6691, 6820, 6947, 7071, 7193, 7314, 7431, 7547, 7660, 7771, 7880,
      7986, 8090, 8192, 8290, 8387, 8480, 8572, 8660, 8746, 8829, 8910, 8988, 9063,
      9135, 9205, 9272, 9336, 9397, 9455, 9511, 9563, 9613, 9659, 9703, 9744, 9781,
      9816, 9848, 9877, 9903, 9925, 9945, 9962, 9976, 9986, 9994, 9998, 10000>>

\* AmpScale * sin(a degrees), any integer a.
Sin(a) ==
    LET r == a % PhaseRes
    IN  IF r <= 90 THEN SinTable[r + 1]
        ELSE IF r <= 180 THEN SinTable[180 - r + 1]
        ELSE IF r <= 270 THEN -SinTable[r - 180 + 1]
        ELSE -SinTable[360 - r + 1]

Cos(a) == Sin(a + 90)

\* asin of an AmpScale-scaled sine value: the angle in -90..90 with that sine.
Asin(v) == CHOOSE a \in -90..90 : Sin(a) = v


----------------------------------------------------------------------------
(* Phase-continuous tone synthesizer.  A synthesizer state is the part of   *)
(* the modulator a tone touches:                                            *)
(*   [samples, older_data, older_cos, delta_length, log]                    *)
(* where log records each tone request (a history of the run).              *)

\* floor(sample_rate * duration_ms / 1000) and the fraction left, the latter
\* in 1/CarryScale samples.
ExactSamples(sr, dur) ==
    LET a == sr * (dur \div DurScale)
        b == sr * (dur % DurScale)
        q == a + (b \div DurScale)
    IN  [whole |-> q \div 1000,
         frac  |-> (q % 1000) * DurScale + (b % DurScale)]

\* SampleCount without the compensation: the fraction is accumulated but never
\* turned into a sample.
SampleCount_no_compensation(sr, dur, delta) ==
    LET e == ExactSamples(sr, dur)
    IN  [n |-> e.whole, delta |-> (delta + e.frac) % CarryScale]

\* The sample count of a tone and the carry it leaves.
SampleCount(sr, dur, delta) ==
    LET e == ExactSamples(sr, dur)
        d == delta + e.frac
    IN  IF d >= CarryScale
        THEN [n |-> e.whole + (d \div CarryScale), delta |-> d % CarryScale]
        ELSE [n |-> e.whole, delta |-> d]

\* RecoverPhi without the cosine's sign: asin alone.
RecoverPhi_asin_only(data, cosv) == Asin(data)

\* phi = sign * asin(older_data) + (|sign - 1| / 2) * pi
RecoverPhi(data, cosv) ==
    LET sign_older_cos == IF cosv >= 0 THEN 1 ELSE -1
        abs_sign_diff == Abs(sign_older_cos - 1) \div 2
    IN  sign_older_cos * Asin(data) + abs_sign_diff * (PhaseRes \div 2)

\* 2 pi f i / sample_rate + phi, in degrees.
PhaseAt(sr, f, i, phi) ==
    ((((f * i) % (FreqScale * sr)) * PhaseRes) \div (FreqScale * sr)) + phi

\* (32767.0 * sample_value) as i16, for the sine of each whole degree
SampleOf == [d \in 0..(PhaseRes - 1) |-> TruncDiv(32767 * Sin(d), AmpScale)]

\* (32767.0 * phase.sin()) as i16
SampleAt(sr, f, i, phi) == SampleOf[PhaseAt(sr, f, i, phi) % PhaseRes]

ToneSamples(sr, f, n, phi) == [i \in 1..n |-> SampleAt(sr, f, i - 1, phi)]

\* What the history keeps of one tone: the request, the phase it started from,
\* the state it found and the state it left.
LogEntry(s, via, f, dur, c, phi, final_phase) ==
    [via |-> via, freq |-> f, dur |-> dur, n |-> c.n, phi |-> phi,
     prev_data |-> s.older_data, prev_cos |-> s.older_cos,
     first |-> Len(s.samples) + 1,
     end_data |-> Sin(final_phase), end_cos |-> Cos(final_phase),
     delta |-> c.delta]

\* write_tone with silence special-cased to a line of zeros.
write_tone_zero_silence(s, sr, frequency, duration_ms) ==
    LET c == SampleCount(sr, duration_ms, s.delta_length)
        phi == RecoverPhi(s.older_data, s.older_cos)
        final_phase == PhaseAt(sr, frequency, c.n, phi)
    IN  [samples      |-> s.samples \o (IF frequency = 0 THEN [i \in 1..c.n |-> 0]
                                         ELSE ToneSamples(sr, frequency, c.n, phi)),
         older_data   |-> Sin(final_phase),
         older_cos    |-> Cos(final_phase),
         delta_length |-> c.delta,
         log          |-> Append(s.log, LogEntry(s, "write_tone", frequency,
                                                 duration_ms, c, phi, final_phase))]

write_tone(s, sr, frequency, duration_ms) ==
    LET c == SampleCount(sr, duration_ms, s.delta_length)
        phi == RecoverPhi(s.older_data, s.older_cos)
        final_phase == PhaseAt(sr, frequency, c.n, phi)
    IN  [samples      |-> s.samples \o ToneSamples(sr, frequency, c.n, phi),
         older_data   |-> Sin(final_phase),
         older_cos    |-> Cos(final_phase),
         delta_length |-> c.delta,
         log          |-> Append(s.log, LogEntry(s, "write_tone", frequency,
                                                 duration_ms, c, phi, final_phase))]

write_tone_with_phase(s, sr, frequency, duration_ms, phi, via) ==
    LET c == SampleCount(sr, duration_ms, s.delta_length)
        final_phase == PhaseAt(sr, frequency, c.n, phi)
    IN  [samples      |-> s.samples \o ToneSamples(sr, frequency, c.n, phi),
         older_data   |-> Sin(final_phase),
         older_cos    |-> Cos(final_phase),
         delta_length |-> c.delta,
         log          |-> Append(s.log, LogEntry(s, via, frequency,
                                                 duration_ms, c, phi, final_phase))]

write_tone_with_continuous_phase(s, sr, frequency, duration_ms) ==
    LET sign_older_cos == IF s.older_cos >= 0 THEN 1 ELSE -1
        abs_sign_diff == Abs(sign_older_cos - 1) \div 2
        phi == sign_older_cos * Asin(s.older_data) + abs_sign_diff * (PhaseRes \div 2)
    IN  write_tone_with_phase(s, sr, frequency, duration_ms, phi,
                              "write_tone_with_continuous_phase")

(* A tone request: which of the three functions is called and with what.    *)
Req(via, f, dur) == [via |-> via, freq |-> f, dur |-> dur, phi |-> 0]
Tone(f, dur) == Req("write_tone", f, dur)
ToneCont(f, dur) == Req("write_tone_with_continuous_phase", f, dur)
TonePhase(f, dur, phi) == [via |-> "write_tone_with_phase", freq |-> f, dur |-> dur, phi |-> phi]

Issue(s, sr, r) ==
    CASE r.via = "write_tone" -> write_tone(s, sr, r.freq, r.dur)
      [] r.via = "write_tone_with_phase" ->
            write_tone_with_phase(s, sr, r.freq, r.dur, r.phi, "write_tone_with_phase")
      [] r.via = "write_tone_with_continuous_phase" ->
            write_tone_with_continuous_phase(s, sr, r.freq, r.dur)

\* The requests reqs[lo..hi] issued in order, each `?` succeeding.  The range
\* is halved and the first half's state is computed before the second half is
\* entered, so that the evaluation stays shallow; delta_length is never negative.
RECURSIVE IssueRange(_, _, _, _, _)
IssueRange(s, sr, reqs, lo, hi) ==
    IF lo > hi THEN s
    ELSE IF lo = hi THEN Issue(s, sr, reqs[lo])
    ELSE LET mid == (lo + hi) \div 2
             left == IssueRange(s, sr, reqs, lo, mid)
         IN  IF left.delta_length >= 0
             THEN IssueRange(left, sr, reqs, mid + 1, hi)
             ELSE left

IssueAll(s, sr, reqs) == IssueRange(s, sr, reqs, 1, Len(reqs))

----------------------------------------------------------------------------
(* VIS header and end tones *)

\* The preamble with its first eight tones cycling 1900, 1500, 2300, 1500.
preamble_tones_cycling ==
    <<Tone(Hz(1900), Ms(100)), Tone(Hz(1500), Ms(100)),
      Tone(Hz(2300), Ms(100)), Tone(Hz(1500), Ms(100)),
      Tone(Hz(1900), Ms(100)), Tone(Hz(1500), Ms(100)),
      Tone(Hz(2300), Ms(100)), Tone(Hz(1500), Ms(100)),
      Tone(Hz(1900), Ms(300)), Tone(Hz(1200), Ms(10)),
      Tone(Hz(1900), Ms(300)), Tone(Hz(1200), Ms(30))>>

preamble_tones ==
    <<Tone(Hz(1900), Ms(100)), Tone(Hz(1500), Ms(100)),
      Tone(Hz(1900), Ms(100)), Tone(Hz(1500), Ms(100)),
      Tone(Hz(2300), Ms(100)), Tone(Hz(1500), Ms(100)),
      Tone(Hz(2300), Ms(100)), Tone(Hz(1500), Ms(100)),
      Tone(Hz(1900), Ms(300)), Tone(Hz(1200), Ms(10)),
      Tone(Hz(1900), Ms(300)), Tone(Hz(1200), Ms(30))>>

\* The data bits read from character index 0 up to 6.
vis_data_bits_forward(vis_code) ==
    [k \in 1..7 |->
        LET bit == vis_code[k]
        IN  Tone(IF bit = "1" THEN Hz(1100) ELSE Hz(1300), Ms(30))]

\* for i in (0..7).rev(): the k-th tone (k = 1..7) reads character index 7 - k.
vis_data_bits(vis_code) ==
    [k \in 1..7 |->
        LET bit == vis_code[(7 - k) + 1]
        IN  Tone(IF bit = "1" THEN Hz(1100) ELSE Hz(1300), Ms(30))]

ones_count(vis_code) == Cardinality({i \in 1..Len(vis_code) : vis_code[i] = "1"})

\* Odd parity: the two frequencies exchanged.
parity_freq_odd(vis_code) == IF ones_count(vis_code) % 2 = 0 THEN Hz(1100) ELSE Hz(1300)

parity_freq(vis_code) == IF ones_count(vis_code) % 2 = 0 THEN Hz(1300) ELSE Hz(1100)

generate_vis_code(m) ==
    LET vis_code == get_vis_code(m)
    IN  preamble_tones
        \o vis_data_bits(vis_code)
        \o <<Tone(parity_freq(vis_code), Ms(30))>>
        \o <<Tone(Hz(1200), Ms(30))>>

generate_end_tones ==
    <<Tone(Hz(1500), Ms(500)), Tone(Hz(1900), Ms(100)), Tone(Hz(1500), Ms(100)),
      Tone(Hz(1900), Ms(100)), Tone(Hz(1500), Ms(100))>>

----------------------------------------------------------------------------
(* Images.  An RgbImage is kept as what decides its pixels: its size, the   *)
(* rectangle the resized source was pasted into, and the picture shown      *)
(* there; every pixel outside the rectangle has the background colour the   *)
(* canvas was created with.  A picture stands for the content the resize    *)
(* filter (library code) produced from the source.                          *)

Pictures == {"black", "white", "colour", "mixed", "palette"}

\* The channel levels of the palette picture and the pixels made of them,
\* numbered from 0.
Levels == <<0, 128, 255>>
PaletteSize == Len(Levels) * Len(Levels) * Len(Levels)
PalettePixel(k) ==
    <<Levels[(k % Len(Levels)) + 1],
      Levels[((k \div Len(Levels)) % Len(Levels)) + 1],
      Levels[((k \div (Len(Levels) * Len(Levels))) % Len(Levels)) + 1]>>

\* The palette picture: an even row shows every palette pixel from left to
\* right, the odd row below the pair of rows number j shows palette pixel j in
\* every column, so that every pixel is found above and below every other.
PictureAt(pic, x, y) ==
    CASE pic = "black"  -> <<0, 0, 0>>
      [] pic = "palette" ->
            IF y % 2 = 0 THEN PalettePixel(x % PaletteSize)
            ELSE PalettePixel((y \div 2) % PaletteSize)
      [] pic = "white"  -> <<255, 255, 255>>
      [] pic = "colour" -> <<200, 30, 90>>
      [] pic = "mixed"  ->
            LET k == (x + 2 * y) % 4
            IN  CASE k = 0 -> <<255, 0, 0>>
                  [] k = 1 -> <<0, 255, 0>>
                  [] k = 2 -> <<0, 0, 255>>
                  [] k = 3 -> <<17, 130, 203>>

\* image.get_pixel(x, y), as <<r, g, b>>
get_pixel(image, x, y) ==
    IF /\ image.offset_x <= x /\ x < image.offset_x + image.scaled_width
       /\ image.offset_y <= y /\ y < image.offset_y + image.scaled_height
    THEN PictureAt(image.picture, x - image.offset_x, y - image.offset_y)
    ELSE image.background

COLOR_FREQ_MULT == 31372549

\* value * COLOR_FREQ_MULT with nothing added to it.
ColorFreq_no_base(value) == MulShift8(value, COLOR_FREQ_MULT) \div 10

\* 1500.0 + value * COLOR_FREQ_MULT, value in 1/ValScale
ColorFreq(value) == Hz(1500) + (MulShift8(value, COLOR_FREQ_MULT) \div 10)

\* 0.003906 * sum, sum in thousandths, result in 1/ValScale
Scale003906(sum) == ((sum \div 10000) * 3906 + (((sum % 10000) * 3906) \div 10000)) \div 10

\* Luminance without the offset of 16: black would then map to 1500 Hz.
get_y_value_no_offset(image, x, y) ==
    LET Value(r, g, b) ==
            Scale003906((65738 * r) + (129057 * g) + (25064 * b))
        Of(pixel) == Value(pixel[1], pixel[2], pixel[3])
    IN  Of(get_pixel(image, x, y))

get_y_value(image, x, y) ==
    LET Value(r, g, b) ==
            16 * ValScale + Scale003906((65738 * r) + (129057 * g) + (25064 * b))
        Of(pixel) == Value(pixel[1], pixel[2], pixel[3])
    IN  Of(get_pixel(image, x, y))

get_ry_value(image, x, y) ==
    LET Value(r, g, b) ==
            128 * ValScale + Scale003906((112439 * r) + (-94154 * g) + (-18285 * b))
        Of(pixel) == Value(pixel[1], pixel[2], pixel[3])
    IN  Of(get_pixel(image, x, y))

get_by_value(image, x, y) ==
    LET Value(r, g, b) ==
            128 * ValScale + Scale003906((-37945 * r) + (-74494 * g) + (112439 * b))
        Of(pixel) == Value(pixel[1], pixel[2], pixel[3])
    IN  Of(get_pixel(image, x, y))

----------------------------------------------------------------------------
(* Mode scan engines: the tone requests of one row (or row pair), and of    *)
(* the whole image, in the order the code issues them.                      *)

\* A Scottie row sent red, green, blue, with the sync between green and blue.
ScottieDxRow_rgb(image, row) ==
    LET width == image.width
    IN  <<ToneCont(Hz(1500), Ms4(1, 5000))>>
        \o [k \in 1..width |->
              ToneCont(ColorFreq(get_pixel(image, k - 1, row)[1] * ValScale), Ms4(1, 800))]
        \o <<ToneCont(Hz(1500), Ms4(1, 5000))>>
        \o [k \in 1..width |->
              ToneCont(ColorFreq(get_pixel(image, k - 1, row)[2] * ValScale), Ms4(1, 800))]
        \o <<ToneCont(Hz(1200), Ms(9)), ToneCont(Hz(1500), Ms4(1, 5000))>>
        \o [k \in 1..width |->
              ToneCont(ColorFreq(get_pixel(image, k - 1, row)[3] * ValScale), Ms4(1, 800))]

ScottieDxRow(image, row) ==
    LET width == image.width
    IN  <<ToneCont(Hz(1500), Ms4(1, 5000))>>
        \o [k \in 1..width |->
              ToneCont(ColorFreq(get_pixel(image, k - 1, row)[2] * ValScale), Ms4(1, 800))]
        \o <<ToneCont(Hz(1500), Ms4(1, 5000))>>
        \o [k \in 1..width |->
              ToneCont(ColorFreq(get_pixel(image, k - 1, row)[3] * ValScale), Ms4(1, 800))]
        \o <<ToneCont(Hz(1200), Ms(9)), ToneCont(Hz(1500), Ms4(1, 5000))>>
        \o [k \in 1..width |->
              ToneCont(ColorFreq(get_pixel(image, k - 1, row)[1] * ValScale), Ms4(1, 800))]

\* The R-Y of the row itself, not averaged with the next row.
ry_avg_own_row(image, col, row) == get_ry_value(image, col, row)

\* (v1 + v2) / 2.0 with v2 the next row's value, or v1 when there is no next row
ry_avg(image, col, row) ==
    LET ry1 == get_ry_value(image, col, row)
        ry2 == IF row + 1 < image.height THEN get_ry_value(image, col, row + 1) ELSE ry1
    IN  (ry1 + ry2) \div 2

by_avg(image, col, row) ==
    LET by1 == get_by_value(image, col, row)
        by2 == IF row + 1 < image.height THEN get_by_value(image, col, row + 1) ELSE by1
    IN  (by1 + by2) \div 2

\* A Robot36 row whose second half does not depend on the row's parity.
Robot36Row_even_only(image, row) ==
    LET width == image.width
    IN  <<Tone(Hz(1200), Ms(9)), Tone(Hz(1500), Ms(3))>>
        \o [k \in 1..width |->
              Tone(ColorFreq(get_y_value(image, k - 1, row)), Ms4(0, 2750))]
        \o <<Tone(Hz(1500), Ms4(4, 5000)), Tone(Hz(1900), Ms4(1, 5000))>>
        \o [k \in 1..width |->
              Tone(ColorFreq(ry_avg(image, k - 1, row)), Ms4(0, 1375))]

Robot36Row(image, row) ==
    LET width == image.width
        luminance == [k \in 1..width |->
                        Tone(ColorFreq(get_y_value(image, k - 1, row)), Ms4(0, 2750))]
    IN  <<Tone(Hz(1200), Ms(9)), Tone(Hz(1500), Ms(3))>>
        \o (IF row % 2 = 0
            THEN luminance
                 \o <<Tone(Hz(1500), Ms4(4, 5000)), Tone(Hz(1900), Ms4(1, 5000))>>
                 \o [k \in 1..width |->
                       Tone(ColorFreq(ry_avg(image, k - 1, row)), Ms4(0, 1375))]
            ELSE luminance
                 \o <<Tone(Hz(2300), Ms4(4, 5000)), Tone(Hz(1900), Ms4(1, 5000))>>
                 \o [k \in 1..width |->
                       Tone(ColorFreq(by_avg(image, k - 1, row)), Ms4(0, 1375))])

Pd120Row(image, row) ==
    LET width == image.width
    IN  <<Tone(Hz(1200), Ms(20)), Tone(Hz(1500), Ms4(2, 800))>>
        \o [k \in 1..width |->
              Tone(ColorFreq(get_y_value(image, k - 1, row)), Ms4(0, 1900))]
        \o [k \in 1..width |->
              Tone(ColorFreq(ry_avg(image, k - 1, row)), Ms4(0, 1900))]
        \o [k \in 1..width |->
              Tone(ColorFreq(by_avg(image, k - 1, row)), Ms4(0, 1900))]
        \o (IF row + 1 < image.height
            THEN [k \in 1..width |->
                    Tone(ColorFreq(get_y_value(image, k - 1, row + 1)), Ms4(0, 1900))]
            ELSE <<>>)

\* for color_index in [1, 2, 0]: the 0-based channel indices of green, blue, red
MartinM1Channel(image, row, color_index) ==
    [k \in 1..image.width |->
        Tone(ColorFreq(get_pixel(image, k - 1, row)[color_index + 1] * ValScale),
             Ms4(0, 4576))]
    \o <<Tone(Hz(1500), Ms4(0, 5720))>>

\* A Martin row with the channels in the order red, green, blue.
MartinM1Row_rgb(image, row) ==
    <<Tone(Hz(1200), Ms4(4, 8620)), Tone(Hz(1500), Ms4(0, 5720))>>
    \o MartinM1Channel(image, row, 0)
    \o MartinM1Channel(image, row, 1)
    \o MartinM1Channel(image, row, 2)

MartinM1Row(image, row) ==
    <<Tone(Hz(1200), Ms4(4, 8620)), Tone(Hz(1500), Ms4(0, 5720))>>
    \o MartinM1Channel(image, row, 1)
    \o MartinM1Channel(image, row, 2)
    \o MartinM1Channel(image, row, 0)

\* The body of the mode's `for row in ...` loop and the loop's step.
RowTones(m, image, row) ==
    CASE m = "ScottieDx" -> ScottieDxRow(image, row)
      [] m = "Robot36"   -> Robot36Row(image, row)
      [] m = "Pd120"     -> Pd120Row(image, row)
      [] m = "MartinM1"  -> MartinM1Row(image, row)

\* Every mode stepping one row at a time.
RowStep_one(m) == 1

RowStep(m) == IF m = "Pd120" THEN 2 ELSE 1

RECURSIVE RowsFrom(_, _, _)
RowsFrom(m, image, row) ==
    IF row >= image.height THEN <<>>
    ELSE RowTones(m, image, row) \o RowsFrom(m, image, row + RowStep(m))

\* The first sync issued like every other tone of mode A, from the recovered phase.
ScanPrologue_continuous(m) ==
    IF m = "ScottieDx" THEN <<ToneCont(Hz(1200), Ms(9))>> ELSE <<>>

\* The tones issued before the row loop.
ScanPrologue(m) ==
    IF m = "ScottieDx" THEN <<TonePhase(Hz(1200), Ms(9), 0)>> ELSE <<>>

generate_scottie_dx(image) == ScanPrologue("ScottieDx") \o RowsFrom("ScottieDx", image, 0)
generate_robot36(image) == RowsFrom("Robot36", image, 0)
generate_pd120(image) == RowsFrom("Pd120", image, 0)
generate_martin_m1(image) == RowsFrom("MartinM1", image, 0)

\* match self.mode { ... }
generate_scan(m, image) ==
    CASE m = "ScottieDx" -> generate_scottie_dx(image)
      [] m = "Robot36"   -> generate_robot36(image)
      [] m = "Pd120"     -> generate_pd120(image)
      [] m = "MartinM1"  -> generate_martin_m1(image)

----------------------------------------------------------------------------
(* Image Fitter *)

RECURSIVE Gcd(_, _)
Gcd(a, b) == IF b = 0 THEN a ELSE Gcd(b, a % b)

IsPowerOfTwo(n) == \E k \in 0..30 : n = 2 ^ k

\* The larger of the two ratios instead of the smaller.
FitScale_max(target, src_width, src_height) ==
    IF target[1] * src_height >= target[2] * src_width
    THEN [num |-> target[1], den |-> src_width]
    ELSE [num |-> target[2], den |-> src_height]

\* scale = scale_x.min(scale_y), kept as the fraction num/den it stands for.
FitScale(target, src_width, src_height) ==
    IF target[1] * src_height <= target[2] * src_width
    THEN [num |-> target[1], den |-> src_width]
    ELSE [num |-> target[2], den |-> src_height]

\* (src as f64 * scale) as u32.  The exact product truncated; where the exact
\* product is a whole number but scale itself is not a binary fraction, the f64
\* product may come out just below that number and truncate to one less.
ScaledLengths(src, scale) ==
    LET exact == (src * scale.num) \div scale.den
        whole == (src * scale.num) % scale.den = 0
        binary == IsPowerOfTwo(scale.den \div Gcd(scale.num, scale.den))
    IN  IF whole /\ ~binary THEN {exact - 1, exact} ELSE {exact}

\* round() of a nonnegative fraction: half away from zero
RoundDiv(a, d) == (2 * a + d) \div (2 * d)

\* The size image.resize(nwidth, nheight, filter) returns: the aspect ratio is
\* kept and the result fits within nwidth x nheight, neither side below 1.
resize_dimensions(width, height, nwidth, nheight) ==
    IF nwidth * height <= nheight * width
    THEN <<Max(nwidth, 1), Max(RoundDiv(height * nwidth, width), 1)>>
    ELSE <<Max(RoundDiv(width * nheight, height), 1), Max(nheight, 1)>>

\* Whether the copy loop reads scaled_rgb.get_pixel(x, y) outside the resized
\* image (a panic).
PasteOutOfBounds(src, scaled_width, scaled_height) ==
    LET resized == resize_dimensions(src.width, src.height, scaled_width, scaled_height)
    IN  /\ scaled_width > 0
        /\ scaled_height > 0
        /\ (resized[1] < scaled_width \/ resized[2] < scaled_height)

\* The offsets rounded up instead of down.
FitGeometry_rounded_up(target, src_width, src_height, scaled_width, scaled_height) ==
    LET offset_x == (target[1] - scaled_width + 1) \div 2
        offset_y == (target[2] - scaled_height + 1) \div 2
    IN  [target_width |-> target[1], target_height |-> target[2],
         scale |-> FitScale(target, src_width, src_height),
         scaled_width |-> scaled_width, scaled_height |-> scaled_height,
         offset_x |-> offset_x, offset_y |-> offset_y,
         black_bars |-> <<offset_x, offset_y,
                          target[1] - offset_x - scaled_width,
                          target[2] - offset_y - scaled_height>>]

\* The geometry: scale, offsets and margins for one choice of scaled size.
FitGeometry(target, src_width, src_height, scaled_width, scaled_height) ==
    LET offset_x == (target[1] - scaled_width) \div 2
        offset_y == (target[2] - scaled_height) \div 2
    IN  [target_width |-> target[1], target_height |-> target[2],
         scale |-> FitScale(target, src_width, src_height),
         scaled_width |-> scaled_width, scaled_height |-> scaled_height,
         offset_x |-> offset_x, offset_y |-> offset_y,
         black_bars |-> <<offset_x, offset_y,
                          target[1] - offset_x - scaled_width,
                          target[2] - offset_y - scaled_height>>]

\* The scaled sizes the f64 arithmetic can produce for a source size.
ScaledSizes(target, src_width, src_height) ==
    LET scale == FitScale(target, src_width, src_height)
    IN  ScaledLengths(src_width, scale) \X ScaledLengths(src_height, scale)

preprocess_image_with_aspect_ratio(m, target, src, scaled, now) ==
    LET g == FitGeometry(target, src.width, src.height, scaled[1], scaled[2])
    IN  [panic |-> PasteOutOfBounds(src, scaled[1], scaled[2]),
         image |-> [width |-> target[1], height |-> target[2],
                    background |-> <<0, 0, 0>>,
                    offset_x |-> g.offset_x, offset_y |-> g.offset_y,
                    scaled_width |-> g.scaled_width, scaled_height |-> g.scaled_height,
                    picture |-> src.picture],
         metadata |-> [original_dimensions |-> <<src.width, src.height>>,
                       target_dimensions |-> target,
                       sstv_mode |-> m,
                       scale_factor |-> g.scale,
                       black_bars |-> g.black_bars,
                       processing_timestamp |-> now]]

----------------------------------------------------------------------------
(* SstvModulator.  `self` is the record of its fields. *)

DEFAULT_SAMPLE_RATE == 6000

AudioProcessor_new(sr) == [samples |-> <<>>, sample_rate |-> sr]

SstvModulator_new(m) ==
    [mode |-> m,
     sample_rate |-> DEFAULT_SAMPLE_RATE,
     audio_processor |-> AudioProcessor_new(DEFAULT_SAMPLE_RATE),
     older_data |-> 0,
     older_cos |-> AmpScale,
     delta_length |-> 0,
     processed_image |-> None,
     processing_metadata |-> None]

\* with_sample_rate changing the rate of the buffer it finds.
with_sample_rate_keeps_buffer(self, sr) ==
    [self EXCEPT !.sample_rate = sr, !.audio_processor.sample_rate = sr]

with_sample_rate(self, sr) ==
    [self EXCEPT !.sample_rate = sr, !.audio_processor = AudioProcessor_new(sr)]

\* A run that stops after the end tones.
RunTones_no_final_silence(m, image) ==
    <<Tone(0, Ms(200))>>
    \o generate_vis_code(m)
    \o generate_scan(m, image)
    \o generate_end_tones

\* The order of a run's tone requests.
RunTones(m, image) ==
    <<Tone(0, Ms(200))>>
    \o generate_vis_code(m)
    \o generate_scan(m, image)
    \o generate_end_tones
    \o <<Tone(0, Ms(200))>>

\* A run that resets the scalars but appends to the buffer it finds.
RunStart_keeps_buffer(self) ==
    [samples |-> self.audio_processor.samples, older_data |-> 0, older_cos |-> AmpScale,
     delta_length |-> 0, log |-> <<>>]

\* A run that clears the buffer but starts from the scalars it finds.
RunStart_keeps_phase(self) ==
    [samples |-> <<>>, older_data |-> self.older_data, older_cos |-> self.older_cos,
     delta_length |-> self.delta_length, log |-> <<>>]

\* The synthesizer state a run starts from: audio_processor.clear() and the
\* three scalars reset.
RunStart(self) ==
    [samples |-> <<>>, older_data |-> 0, older_cos |-> AmpScale, delta_length |-> 0,
     log |-> <<>>]

\* modulate_image with the reset done before the image is fitted.
modulate_image_reset_first(self, target, src, scaled, now) ==
    LET pre == preprocess_image_with_aspect_ratio(self.mode, target, src, scaled, now)
        done == IssueAll(RunStart(self), self.sample_rate, RunTones(self.mode, pre.image))
    IN  IF pre.panic
        THEN [self |-> [self EXCEPT !.audio_processor.samples = <<>>,
                                    !.older_data = 0,
                                    !.older_cos = AmpScale,
                                    !.delta_length = 0],
              result |-> <<"Panic">>, log |-> <<>>]
        ELSE [self |-> [self EXCEPT
                          !.processed_image = pre.image,
                          !.processing_metadata = pre.metadata,
                          !.audio_processor.samples = done.samples,
                          !.older_data = done.older_data,
                          !.older_cos = done.older_cos,
                          !.delta_length = done.delta_length],
              result |-> <<"Ok", done.samples>>,
              log |-> done.log]

\* modulate_image: [self: the modulator afterwards, result, log].  target is
\* the canvas size, scaled the scaled size the f64 arithmetic gave, now the clock.
modulate_image(self, target, src, scaled, now) ==
    LET pre == preprocess_image_with_aspect_ratio(self.mode, target, src, scaled, now)
        done == IssueAll(RunStart(self), self.sample_rate, RunTones(self.mode, pre.image))
    IN  IF pre.panic
        THEN [self |-> self, result |-> <<"Panic">>, log |-> <<>>]
        ELSE [self |-> [self EXCEPT
                          !.processed_image = pre.image,
                          !.processing_metadata = pre.metadata,
                          !.audio_processor.samples = done.samples,
                          !.older_data = done.older_data,
                          !.older_cos = done.older_cos,
                          !.delta_length = done.delta_length],
              result |-> <<"Ok", done.samples>>,
              log |-> done.log]

clear_memory(self) ==
    [self EXCEPT !.audio_processor.samples = <<>>,
                 !.processed_image = None,
                 !.processing_metadata = None,
                 !.older_data = 0,
                 !.older_cos = AmpScale,
                 !.delta_length = 0]

\* clear_audio_memory dropping the image and the metadata as well.
clear_audio_memory_and_image(self) == clear_memory(self)

clear_audio_memory(self) ==
    [self EXCEPT !.audio_processor.samples = <<>>,
                 !.older_data = 0,
                 !.older_cos = AmpScale,
                 !.delta_length = 0]

\* clear_image_memory dropping the image and keeping its metadata.
clear_image_memory_keeps_metadata(self) == [self EXCEPT !.processed_image = None]

clear_image_memory(self) ==
    [self EXCEPT !.processed_image = None, !.processing_metadata = None]

get_samples(self) == self.audio_processor.samples

----------------------------------------------------------------------------
(* AudioGenerator::new and the error it builds *)

DigitChars == <<"0", "1", "2", "3", "4", "5", "6", "7", "8", "9">>

\* n.to_string() for n >= 0, as the sequence of its decimal digits
RECURSIVE to_string(_)
to_string(n) ==
    IF n < 10 THEN <<DigitChars[n + 1]>>
    ELSE Append(to_string(n \div 10), DigitChars[(n % 10) + 1])

invalid_sample_rate(sr, min_rate, max_rate) ==
    [kind |-> "InvalidSampleRate",
     sample_rate |-> sr, min_rate |-> min_rate, max_rate |-> max_rate]

\* The two checks in the other order.
AudioGenerator_new_depth_first(sr, bit_depth) ==
    IF bit_depth /= 16 /\ bit_depth /= 24 /\ bit_depth /= 32
    THEN [ok |-> FALSE,
          err |-> [kind |-> "InvalidAudioParameter",
                   parameter |-> "bit_depth", value |-> to_string(bit_depth)]]
    ELSE IF sr < 8000 \/ sr > 192000
    THEN [ok |-> FALSE, err |-> invalid_sample_rate(sr, 8000, 192000)]
    ELSE [ok |-> TRUE, sample_rate |-> sr, bit_depth |-> bit_depth]

AudioGenerator_new(sr, bit_depth) ==
    IF sr < 8000 \/ sr > 192000
    THEN [ok |-> FALSE, err |-> invalid_sample_rate(sr, 8000, 192000)]
    ELSE IF bit_depth /= 16 /\ bit_depth /= 24 /\ bit_depth /= 32
    THEN [ok |-> FALSE,
          err |-> [kind |-> "InvalidAudioParameter",
                   parameter |-> "bit_depth", value |-> to_string(bit_depth)]]
    ELSE [ok |-> TRUE, sample_rate |-> sr, bit_depth |-> bit_depth]

----------------------------------------------------------------------------
(* Bounds and input sets *)

\* The canvases of the modulator's runs are the modes' sizes shrunk to
\* CanvasW x CanvasH for the 320-wide modes and twice that for the 640-wide one.
CanvasW == 2
CanvasH == 2

CanvasDims(m) ==
    <<(get_dimensions(m)[1] \div 320) * CanvasW, (get_dimensions(m)[2] \div 240) * CanvasH>>

\* Sample rates given to with_sample_rate.
SampleRates == {500, 1050}

\* Source images given to modulate_image.
Sources ==
    {[width |-> 1, height |-> 1, picture |-> "mixed"],
     [width |-> 2, height |-> 1, picture |-> "colour"],
     [width |-> 7, height |-> 5, picture |-> "mixed"],
     [width |-> CanvasW, height |-> CanvasH, picture |-> "black"]}

\* Readings of the clock (chrono::Utc::now() formatted).
Clock == {"20260101_000000"}

\* The modulator is followed for this many calls after new.
MaxCalls == 2

----------------------------------------------------------------------------
(* The modulator as a state machine *)

Self ==
    [mode |-> mode, sample_rate |-> sample_rate, audio_processor |-> audio_processor,
     older_data |-> older_data, older_cos |-> older_cos, delta_length |-> delta_length,
     processed_image |-> processed_image, processing_metadata |-> processing_metadata]

\* What the history keeps of a call: the state it found is summarised by the
\* length of the sample buffer, the synthesizer scalars and the retained image.
Called(op, args, result) ==
    [op |-> op, args |-> args, result |-> result,
     before |-> [len |-> Len(audio_processor.samples),
                 older_data |-> older_data, older_cos |-> older_cos,
                 delta_length |-> delta_length,
                 processed_image |-> processed_image,
                 processing_metadata |-> processing_metadata]]

Becomes(self) ==
    /\ mode' = self.mode
    /\ sample_rate' = self.sample_rate
    /\ audio_processor' = self.audio_processor
    /\ older_data' = self.older_data
    /\ older_cos' = self.older_cos
    /\ delta_length' = self.delta_length
    /\ processed_image' = self.processed_image
    /\ processing_metadata' = self.processing_metadata

Holds(self) ==
    /\ mode = self.mode
    /\ sample_rate = self.sample_rate
    /\ audio_processor = self.audio_processor
    /\ older_data = self.older_data
    /\ older_cos = self.older_cos
    /\ delta_length = self.delta_length
    /\ processed_image = self.processed_image
    /\ processing_metadata = self.processing_metadata

Init ==
    /\ \E m \in Modes : Holds(SstvModulator_new(m))
    /\ call = Called("new", <<>>, <<"Ok">>)
    /\ tone_log = <<>>
    /\ calls = 0
    /\ generator = None
    /\ fit = None
    /\ timer = None
    /\ memory = None
    /\ carry = None
    /\ colour = None
    /\ complete = None

WithSampleRate(sr) ==
    /\ calls < MaxCalls
    /\ calls' = calls + 1
    /\ Becomes(with_sample_rate(Self, sr))
    /\ call' = Called("with_sample_rate", <<sr>>, <<"Ok">>)
    /\ tone_log' = <<>>
    /\ UNCHANGED <<generator, fit, timer, memory, carry, colour, complete>>

ModulateImage(src, now) ==
    \E scaled \in ScaledSizes(CanvasDims(mode), src.width, src.height) :
        LET r == modulate_image(Self, CanvasDims(mode), src, scaled, now)
        IN  /\ calls < MaxCalls
            /\ calls' = calls + 1
            /\ Becomes(r.self)
            /\ call' = Called("modulate_image", <<CanvasDims(mode), src, scaled, now>>,
                              r.result)
            /\ tone_log' = r.log
            /\ UNCHANGED <<generator, fit, timer, memory, carry, colour, complete>>

ClearMemory ==
    /\ calls < MaxCalls
    /\ calls' = calls + 1
    /\ Becomes(clear_memory(Self))
    /\ call' = Called("clear_memory", <<>>, <<"Ok">>)
    /\ tone_log' = <<>>
    /\ UNCHANGED <<generator, fit, timer, memory, carry, colour, complete>>

ClearAudioMemory ==
    /\ calls < MaxCalls
    /\ calls' = calls + 1
    /\ Becomes(clear_audio_memory(Self))
    /\ call' = Called("clear_audio_memory", <<>>, <<"Ok">>)
    /\ tone_log' = <<>>
    /\ UNCHANGED <<generator, fit, timer, memory, carry, colour, complete>>

ClearImageMemory ==
    /\ calls < MaxCalls
    /\ calls' = calls + 1
    /\ Becomes(clear_image_memory(Self))
    /\ call' = Called("clear_image_memory", <<>>, <<"Ok">>)
    /\ tone_log' = <<>>
    /\ UNCHANGED <<generator, fit, timer, memory, carry, colour, complete>>

Next ==
    \/ \E sr \in SampleRates : WithSampleRate(sr)
    \/ \E src \in Sources, now \in Clock : ModulateImage(src, now)
    \/ ClearMemory
    \/ ClearAudioMemory
    \/ ClearImageMemory

Spec == Init /\ [][Next]_vars

----------------------------------------------------------------------------
(* AudioGenerator::new on its own: one construction per step *)

\* Sample rates and bit depths tried: both ends of the accepted range, their
\* neighbours, the rates of the creation test, and depths in and out of the
\* accepted set.
GeneratorRates == {0, 500, 6000, 7999, 8000, 8001, 44100, 48000, 191999, 192000,
                   192001, 250000}
BitDepths == {0, 8, 16, 24, 32, 64}

AudioGeneratorNew(sr, bit_depth) ==
    /\ generator' = [sample_rate |-> sr, bit_depth |-> bit_depth,
                     result |-> AudioGenerator_new(sr, bit_depth)]
    /\ UNCHANGED <<modulator_vars, fit, timer, memory, carry, colour, complete>>

NextGen == \E sr \in GeneratorRates, bit_depth \in BitDepths : AudioGeneratorNew(sr, bit_depth)

SpecGen == Init /\ [][NextGen]_vars

----------------------------------------------------------------------------
(* The Image Fitter's arithmetic on its own, at the modes' real sizes: one  *)
(* source size is fitted per behaviour.                                     *)

\* Source sides tried: every side up to MaxSide and every multiple of 40 up
\* to 40 * MaxSide (240, 320, 480, 640 and 960 among them).
MaxSide == 24
SourceSides == (1..MaxSide) \cup {k * 40 : k \in 1..MaxSide}

\* The source is a white picture, so that the canvas shows where it was pasted.
Preprocess(src_width, src_height) ==
    \E scaled \in ScaledSizes(get_dimensions(mode), src_width, src_height), now \in Clock :
        /\ fit' = [src_width |-> src_width, src_height |-> src_height,
                   panic |-> PasteOutOfBounds([width |-> src_width, height |-> src_height],
                                              scaled[1], scaled[2]),
                   geometry |-> FitGeometry(get_dimensions(mode), src_width, src_height,
                                            scaled[1], scaled[2]),
                   image |-> preprocess_image_with_aspect_ratio(
                                 mode, get_dimensions(mode),
                                 [width |-> src_width, height |-> src_height,
                                  picture |-> "white"],
                                 scaled, now).image]
        /\ UNCHANGED <<modulator_vars, generator, timer, memory, carry, colour, complete>>

NextFit ==
    /\ fit = None
    /\ \E src_width \in SourceSides, src_height \in SourceSides :
          Preprocess(src_width, src_height)

SpecFit == Init /\ [][NextFit]_vars

----------------------------------------------------------------------------
(* A run at the mode's real size, followed row by row with the samples      *)
(* counted and not kept: the counting part of the three tone functions      *)
(* (num_samples and delta_length), applied to the durations of the run's    *)
(* tone requests in their order.                                            *)

\* A counter is [n: samples appended so far, delta: delta_length,
\*               ms, frac: the durations requested so far, in ms and 1/DurScale ms]
CountAdd(c, sr, dur, k) ==
    [n |-> c.n + k.n, delta |-> k.delta,
     ms |-> c.ms + ((c.frac + dur) \div DurScale),
     frac |-> (c.frac + dur) % DurScale]

\* One tone request of the given duration.
CountTone(c, sr, dur) == CountAdd(c, sr, dur, SampleCount(sr, dur, c.delta))

\* `count` tone requests of the same duration, one after the other.
RECURSIVE CountRepeat(_, _, _, _)
CountRepeat(c, sr, dur, count) ==
    IF count = 0 THEN c
    ELSE IF count = 1 THEN CountTone(c, sr, dur)
    ELSE LET half == count \div 2
             left == CountRepeat(c, sr, dur, half)
         IN  IF left.n >= 0 THEN CountRepeat(left, sr, dur, count - half) ELSE left

\* Segments <<duration, count>> counted in order.
RECURSIVE CountSegments(_, _, _, _)
CountSegments(c, sr, segs, k) ==
    IF k > Len(segs) THEN c
    ELSE LET done == CountRepeat(c, sr, segs[k][1], segs[k][2])
         IN  IF done.n >= 0 THEN CountSegments(done, sr, segs, k + 1) ELSE done

\* The durations of a sequence of tone requests, one segment per request.
Durations(reqs) == [k \in 1..Len(reqs) |-> <<reqs[k].dur, 1>>]

\* The durations of the tones of one pass of the mode's row loop, as segments:
\* the per-pixel loops are segments of `width` tones.
RowDurations(m, width, height, row) ==
    CASE m = "ScottieDx" ->
            <<<<Ms4(1, 5000), 1>>, <<Ms4(1, 800), width>>,
              <<Ms4(1, 5000), 1>>, <<Ms4(1, 800), width>>,
              <<Ms(9), 1>>, <<Ms4(1, 5000), 1>>, <<Ms4(1, 800), width>>>>
      [] m = "Robot36" ->
            <<<<Ms(9), 1>>, <<Ms(3), 1>>, <<Ms4(0, 2750), width>>,
              <<Ms4(4, 5000), 1>>, <<Ms4(1, 5000), 1>>, <<Ms4(0, 1375), width>>>>
      [] m = "Pd120" ->
            <<<<Ms(20), 1>>, <<Ms4(2, 800), 1>>, <<Ms4(0, 1900), width>>,
              <<Ms4(0, 1900), width>>, <<Ms4(0, 1900), width>>>>
            \o (IF row + 1 < height THEN <<<<Ms4(0, 1900), width>>>> ELSE <<>>)
      [] m = "MartinM1" ->
            <<<<Ms4(4, 8620), 1>>, <<Ms4(0, 5720), 1>>,
              <<Ms4(0, 4576), width>>, <<Ms4(0, 5720), 1>>,
              <<Ms4(0, 4576), width>>, <<Ms4(0, 5720), 1>>,
              <<Ms4(0, 4576), width>>, <<Ms4(0, 5720), 1>>>>

\* The number of tones in segments k.. of segs, and the duration of the i-th.
RECURSIVE SumCounts(_, _)
SumCounts(segs, k) == IF k > Len(segs) THEN 0 ELSE segs[k][2] + SumCounts(segs, k + 1)

RECURSIVE SegmentDur(_, _, _)
SegmentDur(segs, k, i) ==
    IF i <= segs[k][2] THEN segs[k][1] ELSE SegmentDur(segs, k + 1, i - segs[k][2])

\* Sample rates of the full-size runs.
TimerRates == {6000, 11025, 44100}

\* modulate_image up to the row loop: reset, silence, VIS header, and what the
\* mode issues before its first row.
TimerStart(sr) ==
    /\ timer = None
    /\ timer' = [sample_rate |-> sr, stage |-> "scan", row |-> 0,
                 count |-> CountSegments([n |-> 0, delta |-> 0, ms |-> 0, frac |-> 0], sr,
                                         Durations(<<Tone(0, Ms(200))>>
                                                   \o generate_vis_code(mode)
                                                   \o ScanPrologue(mode)), 1)]
    /\ UNCHANGED <<modulator_vars, generator, fit, memory, carry, colour, complete>>

\* One pass of the mode's row loop.
TimerRow ==
    /\ timer /= None
    /\ timer.stage = "scan"
    /\ timer.row < get_dimensions(mode)[2]
    /\ timer' = [timer EXCEPT
                   !.row = @ + RowStep(mode),
                   !.count = CountSegments(@, timer.sample_rate,
                                           RowDurations(mode, get_dimensions(mode)[1],
                                                        get_dimensions(mode)[2], timer.row),
                                           1)]
    /\ UNCHANGED <<modulator_vars, generator, fit, memory, carry, colour, complete>>

\* After the last row: end tones and the final silence.
TimerEnd ==
    /\ timer /= None
    /\ timer.stage = "scan"
    /\ timer.row >= get_dimensions(mode)[2]
    /\ timer' = [timer EXCEPT
                   !.stage = "done",
                   !.count = CountSegments(@, timer.sample_rate,
                                           Durations(generate_end_tones
                                                     \o <<Tone(0, Ms(200))>>), 1)]
    /\ UNCHANGED <<modulator_vars, generator, fit, memory, carry, colour, complete>>

NextTiming ==
    \/ \E sr \in TimerRates : TimerStart(sr)
    \/ TimerRow
    \/ TimerEnd

SpecTiming == Init /\ [][NextTiming]_vars

----------------------------------------------------------------------------
(* Claims about the length of a run *)

\* The durations a run requests, summed by hand from the timing tables, as
\* <<ms, 1/DurScale ms>>: 3010 ms of silences, header and end tones, plus the
\* scan: 9 + 256 * 1050.3 ms, 240 * 150 ms, 248 * 508.48 ms, 256 * 446.446 ms.
RequestedRunMs(m) ==
    CASE m = "ScottieDx" -> <<271895, 8000>>
      [] m = "Robot36"   -> <<39010, 0>>
      [] m = "Pd120"     -> <<129113, 400>>
      [] m = "MartinM1"  -> <<117300, 1760>>

\* sample_rate * (ms + frac / DurScale) / 1000 in exact arithmetic:
\* [whole samples, the fraction left in 1/CarryScale samples]
SamplesIn(sr, ms, frac) ==
    LET e == ExactSamples(sr, Ms4(ms % 1000, frac))
    IN  [whole |-> sr * (ms \div 1000) + e.whole, frac |-> e.frac]

TimerDone == timer /= None /\ timer.stage = "done"

----------------------------------------------------------------------------
(* Claims about a run's tone requests.  tone_log holds the requests of the  *)
(* last completed run: entry 1 is the opening silence, entries 2..13 the    *)
(* preamble, 14..20 the data bits, 21 the parity tone, 22 the stop tone,    *)
(* and the scan starts at entry 23.                                         *)

RunLogged == call.op = "modulate_image" /\ call.result[1] = "Ok"

\* <<frequency, duration>> of each logged tone, and of each request
Logged(log) == [k \in 1..Len(log) |-> <<log[k].freq, log[k].dur>>]
Asked(reqs) == [k \in 1..Len(reqs) |-> <<reqs[k].freq, reqs[k].dur>>]

\* C1: the tone requests of a run are, in this order and with nothing else
\* between them: a 0 Hz/200 ms silence, the 21 tones of the VIS header, the
\* scan tones of the selected mode over the fitted image, the end tones
\* 1500/500, 1900/100, 1500/100, 1900/100, 1500/100 ms, and a 0 Hz/200 ms silence.
C1_RunOrder ==
    RunLogged =>
        /\ Len(generate_vis_code(mode)) = 21
        /\ Logged(tone_log) =
              <<<<0, Ms(200)>>>>
              \o Asked(generate_vis_code(mode))
              \o Asked(generate_scan(mode, processed_image))
              \o <<<<Hz(1500), Ms(500)>>, <<Hz(1900), Ms(100)>>, <<Hz(1500), Ms(100)>>,
                   <<Hz(1900), Ms(100)>>, <<Hz(1500), Ms(100)>>>>
              \o <<<<0, Ms(200)>>>>

\* C1 witness: a completed PD120 run, whose log has 1 + 21 + 36 + 5 + 1 tones.
C1_Witness == RunLogged /\ mode = "Pd120" /\ Len(tone_log) = 64

SameSign(c, prev_cos) == (prev_cos >= 0 => c >= 0) /\ (prev_cos < 0 => c <= 0)

\* Tone b starts where tone a ended: sin(phi) is a's final value and cos(phi)
\* has the sign of a's final cosine.
Continuous(a, b) == Sin(b.phi) = a.end_data /\ SameSign(Cos(b.phi), a.end_cos)

\* C3 (as amended): in every mode, every tone of a run other than mode A's
\* first sync starts from the phase recovered from the state its predecessor
\* left; the one tone issued with an explicit phase is the 1200 Hz/9 ms sync
\* that opens mode A's scan, and it starts from phase 0 whatever the header left.
C3_PhaseContinuityButFirstSync ==
    RunLogged =>
        \A i \in 1..(Len(tone_log) - 1) :
            IF tone_log[i + 1].via = "write_tone_with_phase"
            THEN /\ mode = "ScottieDx"
                 /\ i + 1 = 23
                 /\ <<tone_log[i + 1].freq, tone_log[i + 1].dur>> = <<Hz(1200), Ms(9)>>
                 /\ tone_log[i + 1].phi = 0
            ELSE Continuous(tone_log[i], tone_log[i + 1])

\* C3 witness: a mode A run at 1050 Hz, whose header ends away from phase 0
\* and whose first sync starts at phase 0 all the same.
C3_Witness ==
    /\ RunLogged
    /\ mode = "ScottieDx"
    /\ sample_rate = 1050
    /\ tone_log[23].via = "write_tone_with_phase"
    /\ tone_log[22].end_data /= 0
    /\ tone_log[23].phi = 0
    /\ \E i \in 24..Len(tone_log) : tone_log[i].prev_cos < 0

\* C3 as stated: every pair of consecutive tones of a run is phase-continuous.
C3_AsStated ==
    RunLogged =>
        \A i \in 1..(Len(tone_log) - 1) : Continuous(tone_log[i], tone_log[i + 1])

\* C4: a run's sample buffer is the one a modulator fresh from new, set to the
\* same sample rate and given the same image, produces: whatever the modulator
\* held or did before the call has no influence on the buffer.
C4_Determinism ==
    call.op = "modulate_image" =>
        modulate_image(with_sample_rate(SstvModulator_new(mode), sample_rate),
                       call.args[1], call.args[2], call.args[3], call.args[4]).result
        = call.result

\* C4 witness: a completed run on a modulator that held an earlier run's
\* samples and a synthesizer state away from the initial one.
C4_Witness ==
    /\ RunLogged
    /\ call.before.len > 0
    /\ call.before.older_data /= 0
    /\ call.before.delta_length /= 0

\* The state modulate_image may touch.
Retained ==
    <<audio_processor, older_data, older_cos, delta_length, processed_image,
      processing_metadata>>

\* C5: a call of modulate_image either returns Ok with the complete buffer (all
\* tones up to the final silence, the buffer returned being the one retained)
\* and a stored fitted image, or fails and leaves the retained buffer, image,
\* metadata and synthesizer state as they were.
C5_Atomic ==
    [][(calls' = calls + 1 /\ call'.op = "modulate_image") =>
          \/ /\ call'.result[1] = "Ok"
             /\ call'.result[2] = audio_processor'.samples
             /\ tone_log'[Len(tone_log')].first + tone_log'[Len(tone_log')].n - 1
                   = Len(audio_processor'.samples)
             /\ <<tone_log'[Len(tone_log')].freq, tone_log'[Len(tone_log')].dur>>
                   = <<0, Ms(200)>>
             /\ processed_image' /= None
             /\ processing_metadata' /= None
          \/ /\ call'.result[1] /= "Ok"
             /\ Retained' = Retained]_vars

\* C5 witness: a failed call on a modulator that holds an earlier run.
C5_Witness ==
    /\ call.op = "modulate_image"
    /\ call.result = <<"Panic">>
    /\ call.before.len > 0
    /\ Len(audio_processor.samples) = call.before.len
    /\ processed_image /= None

\* C6: the parity tone, sent after the 7 data bits, is 1300 Hz/30 ms when the
\* mode's VIS code has an even number of '1' characters and 1100 Hz/30 ms when
\* it has an odd number; so the number of 1100 Hz tones among the 8 is even.
C6_Parity ==
    RunLogged =>
        LET code == get_vis_code(mode)
            ones == Cardinality({i \in 1..7 : code[i] = "1"})
        IN  /\ tone_log[21].dur = Ms(30)
            /\ tone_log[21].freq = (IF ones % 2 = 0 THEN Hz(1300) ELSE Hz(1100))
            /\ Cardinality({k \in 14..21 : tone_log[k].freq = Hz(1100)}) % 2 = 0

\* C6 witness: a PD120 run (six '1' characters) with a 1300 Hz parity tone.
C6_Witness == RunLogged /\ mode = "Pd120" /\ tone_log[21].freq = Hz(1300)

\* C7: the header has exactly 7 data-bit tones of 30 ms between the preamble and
\* the parity tone, the k-th (k = 0..6) read from character index 6 - k of the
\* VIS code, 1100 Hz for '1' and 1300 Hz for '0'; after the parity tone comes a
\* 1200 Hz/30 ms stop tone, which ends the header.
C7_DataBits ==
    RunLogged =>
        LET code == get_vis_code(mode)
        IN  /\ <<tone_log[13].freq, tone_log[13].dur>> = <<Hz(1200), Ms(30)>>
            /\ \A k \in 0..6 :
                  /\ tone_log[14 + k].dur = Ms(30)
                  /\ tone_log[14 + k].freq =
                        (IF code[(6 - k) + 1] = "1" THEN Hz(1100) ELSE Hz(1300))
            /\ <<tone_log[22].freq, tone_log[22].dur>> = <<Hz(1200), Ms(30)>>
            /\ Len(tone_log) = 22 + Len(generate_scan(mode, processed_image)) + 6

\* C7 witness: a mode A run ("1001100"): the first data tone is 1300 Hz (index
\* 6 is '0') and the last is 1100 Hz (index 0 is '1').
C7_Witness ==
    /\ RunLogged
    /\ mode = "ScottieDx"
    /\ tone_log[14].freq = Hz(1300)
    /\ tone_log[20].freq = Hz(1100)

\* C8 (as amended): the preamble is 12 tones, the same in every mode: eight of
\* 100 ms at 1900, 1500, 1900, 1500, 2300, 1500, 2300, 1500 Hz, then
\* 1900 Hz/300 ms, 1200 Hz/10 ms, 1900 Hz/300 ms, 1200 Hz/30 ms.
C8_Preamble ==
    RunLogged =>
        [k \in 1..12 |-> <<tone_log[k + 1].freq, tone_log[k + 1].dur>>] =
            <<<<Hz(1900), Ms(100)>>, <<Hz(1500), Ms(100)>>,
              <<Hz(1900), Ms(100)>>, <<Hz(1500), Ms(100)>>,
              <<Hz(2300), Ms(100)>>, <<Hz(1500), Ms(100)>>,
              <<Hz(2300), Ms(100)>>, <<Hz(1500), Ms(100)>>,
              <<Hz(1900), Ms(300)>>, <<Hz(1200), Ms(10)>>,
              <<Hz(1900), Ms(300)>>, <<Hz(1200), Ms(30)>>>>

\* C8 witness: a Martin M1 run whose third preamble tone is 1900 Hz and whose
\* fifth is 2300 Hz.
C8_Witness ==
    /\ RunLogged
    /\ mode = "MartinM1"
    /\ tone_log[4].freq = Hz(1900)
    /\ tone_log[6].freq = Hz(2300)

\* C8 as stated: the eight 100 ms tones are 1900, 1500, 2300, 1500, 1900, 1500,
\* 2300, 1500 Hz, followed by the same four tones.
C8_AsStated ==
    RunLogged =>
        [k \in 1..12 |-> <<tone_log[k + 1].freq, tone_log[k + 1].dur>>] =
            <<<<Hz(1900), Ms(100)>>, <<Hz(1500), Ms(100)>>,
              <<Hz(2300), Ms(100)>>, <<Hz(1500), Ms(100)>>,
              <<Hz(1900), Ms(100)>>, <<Hz(1500), Ms(100)>>,
              <<Hz(2300), Ms(100)>>, <<Hz(1500), Ms(100)>>,
              <<Hz(1900), Ms(300)>>, <<Hz(1200), Ms(10)>>,
              <<Hz(1900), Ms(300)>>, <<Hz(1200), Ms(30)>>>>

\* The scan of a logged run has the durations the row-by-row count of a
\* full-size run uses (RowDurations against the scan engines).
ScanDurationsAgree ==
    RunLogged =>
        LET image == processed_image
            rows == {r \in 0..(image.height - 1) : r % RowStep(mode) = 0}
        IN  \A r \in rows :
              LET tones == RowTones(mode, image, r)
                  segs == RowDurations(mode, image.width, image.height, r)
              IN  /\ Len(tones) = SumCounts(segs, 1)
                  /\ \A k \in 1..Len(tones) : tones[k].dur = SegmentDur(segs, 1, k)

----------------------------------------------------------------------------
(* Claims about the Image Fitter *)

\* C9: for every source size and every mode's target size, scaled_width <=
\* target_width and scaled_height <= target_height (the offset subtractions do
\* not underflow), left + scaled_width + right = target_width and
\* top + scaled_height + bottom = target_height.
C9_FitWithinTarget ==
    fit /= None =>
        LET g == fit.geometry
        IN  /\ g.scaled_width <= g.target_width
            /\ g.scaled_height <= g.target_height
            /\ g.offset_x >= 0
            /\ g.offset_y >= 0
            /\ g.black_bars[1] + g.scaled_width + g.black_bars[3] = g.target_width
            /\ g.black_bars[2] + g.scaled_height + g.black_bars[4] = g.target_height
            /\ <<g.target_width, g.target_height>> = get_dimensions(mode)

\* C9 witness: an 11 x 11 source in Robot36 (320 x 240), where the scaled side
\* comes out as 239 and the margins are 40, 0, 41, 1.
C9_Witness ==
    /\ fit /= None
    /\ mode = "Robot36"
    /\ <<fit.src_width, fit.src_height>> = <<11, 11>>
    /\ <<fit.geometry.scaled_width, fit.geometry.scaled_height>> = <<239, 239>>
    /\ fit.geometry.black_bars = <<40, 0, 41, 1>>

----------------------------------------------------------------------------
(* Claims about AudioGenerator::new *)

\* C10: a sample rate below 8000 or above 192000 (500 and 250000 among them) is
\* rejected with InvalidSampleRate carrying the rate, 8000 and 192000, whatever
\* the bit depth; a rate in the range with bit depth 16, 24 or 32 succeeds and
\* the generator holds the given rate and depth.
C10_GeneratorRange ==
    generator /= None =>
        LET sr == generator.sample_rate
            depth == generator.bit_depth
            r == generator.result
        IN  /\ (sr < 8000 \/ sr > 192000) =>
                  /\ ~r.ok
                  /\ r.err = [kind |-> "InvalidSampleRate", sample_rate |-> sr,
                              min_rate |-> 8000, max_rate |-> 192000]
            /\ (sr >= 8000 /\ sr <= 192000 /\ depth \in {16, 24, 32}) =>
                  r = [ok |-> TRUE, sample_rate |-> sr, bit_depth |-> depth]

\* C10 witness: 500 Hz with bit depth 8 fails on the sample rate.
C10_Witness ==
    /\ generator /= None
    /\ generator.sample_rate = 500
    /\ generator.bit_depth = 8
    /\ ~generator.result.ok
    /\ generator.result.err.kind = "InvalidSampleRate"

----------------------------------------------------------------------------
(* Claims about the sample rate of a run *)

OutOfRange(sr) == sr < 1000 \/ sr > 192000

\* C11 as stated: a modulate_image call on a modulator whose sample rate is
\* outside 1000..192000 Hz ends in an invalid-sample-rate failure and leaves
\* no sample buffer.
C11_AsStated ==
    (call.op = "modulate_image" /\ OutOfRange(sample_rate)) =>
        /\ call.result[1] = "InvalidSampleRate"
        /\ get_samples(Self) = <<>>

----------------------------------------------------------------------------
(* Claims about the scan of a solid black image *)

\* A completed run over a solid black source (the fitted canvas is then black
\* everywhere, margins included).
BlackRun == RunLogged /\ call.args[2].picture = "black"

\* The luminance and the chrominance tones of a Robot36 scan are the ones of
\* 0.275 ms and 0.1375 ms.
IsLuminance36(t) == t.dur = Ms4(0, 2750)
IsChrominance36(t) == t.dur = Ms4(0, 1375)

\* C12 (as amended): in the Robot36 scan of a solid black image every
\* luminance tone has the frequency of Y = 16, 1500 + 16 * 3.1372549 = 1550.19 Hz,
\* and every chrominance tone the frequency of R-Y = B-Y = 128,
\* 1500 + 128 * 3.1372549 = 1901.56 Hz (both cut to 1/100 Hz); none is 1500 Hz.
C12_BlackRobot36Baselines ==
    (BlackRun /\ mode = "Robot36") =>
        \A i \in 23..(Len(tone_log) - 6) :
            /\ IsLuminance36(tone_log[i]) => tone_log[i].freq = 155019
            /\ IsChrominance36(tone_log[i]) => tone_log[i].freq = 190156

\* C12 witness: such a run, with luminance tones in both rows, an R-Y row and
\* a B-Y row.
C12_Witness ==
    /\ BlackRun
    /\ mode = "Robot36"
    /\ processed_image.width = CanvasW
    /\ IsLuminance36(tone_log[25]) /\ tone_log[25].freq = 155019
    /\ tone_log[25 + CanvasW + 1].freq = Hz(1900)
    /\ IsChrominance36(tone_log[25 + CanvasW + 2]) /\ tone_log[25 + CanvasW + 2].freq = 190156
    /\ \E i \in 23..(Len(tone_log) - 6) : tone_log[i].freq = Hz(2300)

\* C12 as stated: every luminance and every chrominance tone of that scan has
\* frequency 1500 Hz.
C12_AsStated ==
    (BlackRun /\ mode = "Robot36") =>
        \A i \in 23..(Len(tone_log) - 6) :
            (IsLuminance36(tone_log[i]) \/ IsChrominance36(tone_log[i])) =>
                tone_log[i].freq = Hz(1500)

----------------------------------------------------------------------------
(* Saving the processed image.  The file system is the environment: io is    *)
(* what it does with the writes of one call ("ok", or the image write or    *)
(* the metadata write failing).  A save returns its Result and the files    *)
(* it wrote in full.                                                        *)

ImageSaveConfig_default ==
    [format |-> "Png", jpeg_quality |-> 95, preserve_metadata |-> TRUE]

\* Configurations given to save_processed_image_with_config.
SaveConfigs ==
    {[format |-> "Jpeg", jpeg_quality |-> 80, preserve_metadata |-> FALSE],
     [format |-> "Gif", jpeg_quality |-> 95, preserve_metadata |-> TRUE]}

IoOutcomes == {"ok", "image_write_fails", "metadata_write_fails"}

ImageProcessing(msg) == [kind |-> "ImageProcessing", msg |-> msg]
IoError == [kind |-> "IoError"]

save_metadata_file(self, io) ==
    IF self.processing_metadata = None
    THEN [result |-> <<"Err", ImageProcessing("no processing metadata")>>, written |-> {}]
    ELSE IF io = "metadata_write_fails"
    THEN [result |-> <<"Err", IoError>>, written |-> {}]
    ELSE [result |-> <<"Ok">>, written |-> {"metadata"}]

\* A save that writes the image whether or not one is held.
save_processed_image_with_config_unchecked(self, config, io) ==
    IF config.format \notin {"Png", "Jpeg", "Bmp"}
    THEN [result |-> <<"Err", ImageProcessing("unsupported image format")>>,
          written |-> {}]
    ELSE IF io = "image_write_fails"
    THEN [result |-> <<"Err", IF config.format = "Jpeg" THEN IoError
                               ELSE ImageProcessing("save failed")>>,
          written |-> {}]
    ELSE IF config.preserve_metadata
    THEN LET meta == save_metadata_file(self, io)
         IN  [result |-> meta.result, written |-> {"image"} \cup meta.written]
    ELSE [result |-> <<"Ok">>, written |-> {"image"}]

save_processed_image_with_config(self, config, io) ==
    IF self.processed_image = None
    THEN [result |-> <<"Err", ImageProcessing("no processed image to save")>>,
          written |-> {}]
    ELSE IF config.format \notin {"Png", "Jpeg", "Bmp"}
    THEN [result |-> <<"Err", ImageProcessing("unsupported image format")>>,
          written |-> {}]
    ELSE IF io = "image_write_fails"
    THEN [result |-> <<"Err", IF config.format = "Jpeg" THEN IoError
                               ELSE ImageProcessing("save failed")>>,
          written |-> {}]
    ELSE IF config.preserve_metadata
    THEN LET meta == save_metadata_file(self, io)
         IN  [result |-> meta.result, written |-> {"image"} \cup meta.written]
    ELSE [result |-> <<"Ok">>, written |-> {"image"}]

save_processed_image(self, io) ==
    save_processed_image_with_config(self, ImageSaveConfig_default, io)

SaveProcessedImage(io) ==
    LET r == save_processed_image(Self, io)
    IN  /\ calls < MaxCalls
        /\ calls' = calls + 1
        /\ call' = Called("save_processed_image", <<>>, r.result \o <<r.written>>)
        /\ tone_log' = <<>>
        /\ UNCHANGED <<mode, sample_rate, audio_processor, older_data, older_cos,
                       delta_length, processed_image, processing_metadata,
                       generator, fit, timer, memory, carry, colour, complete>>

SaveProcessedImageWithConfig(config, io) ==
    LET r == save_processed_image_with_config(Self, config, io)
    IN  /\ calls < MaxCalls
        /\ calls' = calls + 1
        /\ call' = Called("save_processed_image_with_config", <<config>>,
                          r.result \o <<r.written>>)
        /\ tone_log' = <<>>
        /\ UNCHANGED <<mode, sample_rate, audio_processor, older_data, older_cos,
                       delta_length, processed_image, processing_metadata,
                       generator, fit, timer, memory, carry, colour, complete>>

\* Source images of the runs between saves: one that fits and the one whose
\* paste can run off the canvas.
SaveSources == {src \in Sources : src.picture = "mixed"}

NextSave ==
    \/ \E io \in IoOutcomes : SaveProcessedImage(io)
    \/ \E config \in SaveConfigs, io \in IoOutcomes : SaveProcessedImageWithConfig(config, io)
    \/ \E src \in SaveSources, now \in Clock : ModulateImage(src, now)
    \/ ClearMemory
    \/ ClearAudioMemory
    \/ ClearImageMemory

SpecSave == Init /\ [][NextSave]_vars

IsSave == call.op \in {"save_processed_image", "save_processed_image_with_config"}

NoImageError == <<"Err", ImageProcessing("no processed image to save"), {}>>

\* C13: the modulator holds a processed image exactly when a modulate_image
\* has completed since new and since the last clear_memory or
\* clear_image_memory; save_processed_image and
\* save_processed_image_with_config return the "no processed image" error,
\* having written no file, exactly when no image is held, and with an image
\* held they fail, if at all, for another reason.
C13_SaveNeedsImage ==
    [][/\ calls = 0 => processed_image = None
       /\ processed_image' /= None <=>
             \/ call'.op = "modulate_image" /\ call'.result[1] = "Ok"
             \/ /\ processed_image /= None
                /\ call'.op \notin {"clear_memory", "clear_image_memory"}
       /\ IsSave' =>
             /\ (processed_image' = None) <=> (call'.result = NoImageError)
             /\ processed_image' = None => call'.result[3] = {}]_vars

\* C13 witness: a save with a configuration, as the second call on a modulator
\* that holds no image, fails with the error and writes nothing.
C13_Witness ==
    /\ call.op = "save_processed_image_with_config"
    /\ call.args[1].format = "Jpeg"
    /\ calls = MaxCalls
    /\ processed_image = None
    /\ call.result = NoImageError

----------------------------------------------------------------------------
(* Reading a run's outputs back *)

get_processed_image(self) == self.processed_image
get_processing_metadata(self) == self.processing_metadata

GetSamples ==
    /\ calls < MaxCalls
    /\ calls' = calls + 1
    /\ call' = Called("get_samples", <<>>, <<"Ok", get_samples(Self)>>)
    /\ tone_log' = <<>>
    /\ UNCHANGED <<mode, sample_rate, audio_processor, older_data, older_cos,
                   delta_length, processed_image, processing_metadata,
                   generator, fit, timer, memory, carry, colour, complete>>

GetProcessedImage ==
    /\ calls < MaxCalls
    /\ calls' = calls + 1
    /\ call' = Called("get_processed_image", <<>>, <<"Ok", get_processed_image(Self)>>)
    /\ tone_log' = <<>>
    /\ UNCHANGED <<mode, sample_rate, audio_processor, older_data, older_cos,
                   delta_length, processed_image, processing_metadata,
                   generator, fit, timer, memory, carry, colour, complete>>

GetProcessingMetadata ==
    /\ calls < MaxCalls
    /\ calls' = calls + 1
    /\ call' = Called("get_processing_metadata", <<>>, <<"Ok", get_processing_metadata(Self)>>)
    /\ tone_log' = <<>>
    /\ UNCHANGED <<mode, sample_rate, audio_processor, older_data, older_cos,
                   delta_length, processed_image, processing_metadata,
                   generator, fit, timer, memory, carry, colour, complete>>

NextRead ==
    \/ GetSamples
    \/ GetProcessedImage
    \/ GetProcessingMetadata
    \/ \E sr \in SampleRates : WithSampleRate(sr)
    \/ \E src \in SaveSources, now \in Clock : ModulateImage(src, now)
    \/ ClearMemory
    \/ ClearAudioMemory
    \/ ClearImageMemory

SpecRead == Init /\ [][NextRead]_vars

Getters == {"get_samples", "get_processed_image", "get_processing_metadata"}

\* What the three getters return.
Outputs(self) ==
    <<get_samples(self), get_processed_image(self), get_processing_metadata(self)>>

\* C14 (as amended): after a successful modulate_image the retained image has
\* the mode's target width and height (here the mode's canvas) and the
\* metadata's target_dimensions are the same pair; a getter returns the field
\* it reads and changes nothing; the buffer changes only in modulate_image,
\* clear_memory, clear_audio_memory and with_sample_rate, which leaves it
\* empty, and the image and metadata only in modulate_image, clear_memory and
\* clear_image_memory.
C14_OutputsRetained ==
    [][/\ (call'.op = "modulate_image" /\ call'.result[1] = "Ok") =>
             /\ <<processed_image'.width, processed_image'.height>> = CanvasDims(mode')
             /\ processing_metadata'.target_dimensions = CanvasDims(mode')
             /\ processing_metadata'.sstv_mode = mode'
       /\ call'.op \in Getters =>
             /\ Outputs(Self)' = Outputs(Self)
             /\ call'.result[2] \in {Outputs(Self)[k] : k \in 1..3}
       /\ call'.op = "get_samples" => call'.result[2] = get_samples(Self)
       /\ call'.op = "with_sample_rate" =>
             /\ get_samples(Self)' = <<>>
             /\ processed_image' = processed_image
             /\ processing_metadata' = processing_metadata
       /\ get_samples(Self)' /= get_samples(Self) =>
             call'.op \in {"modulate_image", "clear_memory", "clear_audio_memory",
                           "with_sample_rate"}
       /\ <<processed_image', processing_metadata'>>
             /= <<processed_image, processing_metadata>> =>
             call'.op \in {"modulate_image", "clear_memory", "clear_image_memory"}]_vars

\* C14 witness: get_samples right after a run returns the run's buffer, with
\* the image of the canvas size still held.
C14_Witness ==
    /\ call.op = "get_samples"
    /\ Len(call.result[2]) > 0
    /\ call.result[2] = get_samples(Self)
    /\ processed_image /= None
    /\ <<processed_image.width, processed_image.height>> = CanvasDims(mode)
    /\ processing_metadata.target_dimensions = CanvasDims(mode)

\* C14 as stated: the buffer, the image and the metadata are as they were
\* across every call that neither clears them nor is a run.
C14_AsStated ==
    call.op \notin {"new", "modulate_image", "clear_memory", "clear_audio_memory",
                    "clear_image_memory"} =>
        /\ Len(get_samples(Self)) = call.before.len
        /\ processed_image = call.before.processed_image
        /\ processing_metadata = call.before.processing_metadata

----------------------------------------------------------------------------
(* Claims about the start of a run *)

\* What a modulator fresh from new, set to this sample rate, returns for the
\* arguments of the last call.
FreshResult ==
    modulate_image(with_sample_rate(SstvModulator_new(mode), sample_rate),
                   call.args[1], call.args[2], call.args[3], call.args[4]).result

\* C15: the first tone of a run is written into an empty buffer, from last
\* value 0, last cosine 1 and carry 0, whatever the modulator held; the vector
\* returned holds the run's tones and nothing before them, it is the vector a
\* fresh modulator returns for the same image, and it is what get_samples
\* returns afterwards.
C15_RunResets ==
    RunLogged =>
        LET first_tone == tone_log[1]
            last_tone == tone_log[Len(tone_log)]
            e == ExactSamples(sample_rate, Ms(200))
        IN  /\ first_tone.first = 1
            /\ first_tone.prev_data = 0
            /\ first_tone.prev_cos = AmpScale
            /\ <<first_tone.n, first_tone.delta>> = <<e.whole, e.frac>>
            /\ \A k \in 1..(Len(tone_log) - 1) :
                  tone_log[k + 1].first = tone_log[k].first + tone_log[k].n
            /\ last_tone.first + last_tone.n - 1 = Len(call.result[2])
            /\ call.result[2] = get_samples(Self)
            /\ call.result[2] = FreshResult[2]

\* C15 witness: a second run on a modulator that held a first run's samples
\* and a phase state away from the reset one returns as many samples as the
\* first run left, not twice as many.
C15_Witness ==
    /\ RunLogged
    /\ calls = 2
    /\ call.before.len > 0
    /\ call.before.older_data /= 0
    /\ call.before.older_cos /= AmpScale
    /\ call.before.delta_length /= 0
    /\ Len(get_samples(Self)) = call.before.len
    /\ tone_log[1].first = 1

----------------------------------------------------------------------------
(* Claims about the samples of a tone *)

\* a / d rounded to the nearest integer, halves away from zero (f64::round)
RoundNearest(a, d) ==
    IF a >= 0 THEN (2 * a + d) \div (2 * d) ELSE -((2 * (-a) + d) \div (2 * d))

\* The samples of logged tone t, as they lie in the buffer.
SamplesOfTone(t) == SubSeq(get_samples(Self), t.first, t.first + t.n - 1)

\* C16 as stated: every sample of every tone of a run is 32767 * sin(phase)
\* rounded to the nearest integer, phase being 2 pi f i / sample_rate + phi.
C16_AsStated ==
    RunLogged =>
        \A k \in 1..Len(tone_log) :
            LET t == tone_log[k]
            IN  SamplesOfTone(t) =
                    [i \in 1..t.n |->
                        RoundNearest(32767 * Sin(PhaseAt(sample_rate, t.freq, i - 1, t.phi)),
                                     AmpScale)]

\* What the code does instead: the product is cut toward zero by `as i16`.
SamplesAreTruncated ==
    RunLogged =>
        \A k \in 1..Len(tone_log) :
            LET t == tone_log[k]
            IN  SamplesOfTone(t) =
                    [i \in 1..t.n |->
                        TruncDiv(32767 * Sin(PhaseAt(sample_rate, t.freq, i - 1, t.phi)),
                                 AmpScale)]

----------------------------------------------------------------------------
(* Claims about silence *)

IsSilence(t) == t.freq = 0

\* The one sample value of a tone that starts at phase phi and never advances.
HeldSample(t) == SampleOf[RecoverPhi(t.prev_data, t.prev_cos) % PhaseRes]

----------------------------------------------------------------------------
(* estimate_memory_usage and check_memory_requirements (lib.rs).  Byte      *)
(* counts can pass 2^31, so a count is kept as [k, b]: k * 1024 + b bytes   *)
(* with b in 0..1023, and a u32 product as [hi, lo]: hi * 65536 + lo with   *)
(* lo in 0..65535, the part of hi from 65536 up being what u32 cannot hold. *)

\* a * b for 0 <= a, b <= 2^20, exactly
Product(a, b) ==
    LET a1 == a \div 65536
        a0 == a % 65536
        b1 == b \div 65536
        b0 == b % 65536
        c1 == a0 \div 256
        c0 == a0 % 256
        d1 == b0 \div 256
        d0 == b0 % 256
        cross == (c1 * d0) + (c0 * d1)
        low == (c0 * d0) + ((cross % 256) * 256)
    IN  [hi |-> (c1 * d1) + (cross \div 256) + (low \div 65536)
                + (a1 * b0) + (a0 * b1) + (a1 * b1 * 65536),
         lo |-> low % 65536]

\* p * 3
Triple(p) ==
    [hi |-> (3 * p.hi) + ((3 * p.lo) \div 65536), lo |-> (3 * p.lo) % 65536]

\* image_width * image_height * 3 in u32: whether a multiplication passes
\* 2^32 - 1, and the product modulo 2^32
SourceBytes(image_width, image_height) ==
    LET p == Product(image_width, image_height)
        t == Triple([hi |-> p.hi % 65536, lo |-> p.lo])
    IN  [overflow |-> p.hi >= 65536 \/ t.hi >= 65536,
         k |-> ((t.hi % 65536) * 64) + (t.lo \div 1024),
         b |-> t.lo % 1024]

\* estimate_memory_usage; overflow_checks is the build's setting (on in a
\* debug build, off in a release build).
estimate_memory_usage(image_width, image_height, m, sr, overflow_checks) ==
    LET target == get_dimensions(m)
        source_image_memory == SourceBytes(image_width, image_height)
        target_image_memory == target[1] * target[2] * 3
        audio_memory == (sr * (get_duration_ms(m) \div 100) * 2) \div 10
        rest == source_image_memory.b + target_image_memory + audio_memory + 1024
    IN  IF overflow_checks /\ source_image_memory.overflow
        THEN [panic |-> TRUE]
        ELSE [panic |-> FALSE,
              k |-> source_image_memory.k + (rest \div 1024),
              b |-> rest % 1024]

\* floor(sqrt(q)) for 0 <= q < 10000
Isqrt(q) == CHOOSE r \in 0..99 : r * r <= q /\ q < (r + 1) * (r + 1)

\* 100 * scale_factor, scale_factor = sqrt(100 / required_mb * 0.8), to the
\* hundredth: [lo, hi] with lo <= 100 * scale_factor < hi.
ScaleFactorBounds(required) ==
    [lo |-> Isqrt(819200000 \div (required.k + 1)),
     hi |-> Isqrt(819200000 \div required.k) + 1]

\* A suggested length without the floor of 100.
SuggestedLength_no_floor(length, scale) ==
    [lo |-> (length * scale.lo) \div 100,
     hi |-> (length * scale.hi) \div 100]

\* ((length as f64 * scale_factor) as u32).max(100), as the bounds
\* [lo, hi] the bounds of the scale factor leave it in.
SuggestedLength(length, scale) ==
    [lo |-> Max((length * scale.lo) \div 100, 100),
     hi |-> Max((length * scale.hi) \div 100, 100)]

\* check_memory_requirements: (has_enough, required, suggested_size); required
\* is kept in bytes, required_mb being required / 1024 / 1024.
check_memory_requirements(image_width, image_height, m, sr, overflow_checks) ==
    LET required_memory == estimate_memory_usage(image_width, image_height, m, sr,
                                                 overflow_checks)
        has_enough == \/ required_memory.k < 102400
                      \/ required_memory.k = 102400 /\ required_memory.b = 0
        scale_factor == ScaleFactorBounds(required_memory)
    IN  IF required_memory.panic
        THEN [panic |-> TRUE]
        ELSE [panic |-> FALSE,
              has_enough |-> has_enough,
              required |-> [k |-> required_memory.k, b |-> required_memory.b],
              suggested_size |->
                  IF ~has_enough
                  THEN [width |-> SuggestedLength(image_width, scale_factor),
                        height |-> SuggestedLength(image_height, scale_factor)]
                  ELSE None]

\* Image sides and sample rates given to check_memory_requirements.
ImageSides == {0, 1, 50, 100, 101, 3000, 4000, 40000, 65536, 400000}
MemoryRates == {6000, 44100, 192000}

CheckMemoryRequirements(image_width, image_height, m, sr, overflow_checks) ==
    /\ memory' = [image_width |-> image_width, image_height |-> image_height,
                  mode |-> m, sample_rate |-> sr, overflow_checks |-> overflow_checks,
                  result |-> check_memory_requirements(image_width, image_height, m, sr,
                                                       overflow_checks)]
    /\ UNCHANGED <<modulator_vars, generator, fit, timer, carry, colour, complete>>

NextMemory ==
    /\ memory = None
    /\ \E image_width \in ImageSides, image_height \in ImageSides, m \in Modes,
          sr \in MemoryRates, overflow_checks \in BOOLEAN :
          CheckMemoryRequirements(image_width, image_height, m, sr, overflow_checks)

SpecMemory == Init /\ [][NextMemory]_vars

Returned == memory /= None /\ ~memory.result.panic

\* C18 (as amended): check_memory_requirements returns a suggested size exactly
\* when has_enough is false, and has_enough is true exactly when the estimate
\* is at most 100 MB (102400 KiB and no byte more); a suggested dimension is the input
\* dimension scaled by a factor below 0.9 and then raised to 100 if it is
\* less: it is smaller than the input dimension when that exceeds 100, and it
\* is 100 when the input dimension is 100 or less.
C18_SuggestedSize ==
    Returned =>
        LET r == memory.result
            e == estimate_memory_usage(memory.image_width, memory.image_height,
                                       memory.mode, memory.sample_rate,
                                       memory.overflow_checks)
            Shrunk(s, length) ==
                /\ s.lo <= s.hi
                /\ length > 100 => 100 <= s.lo /\ s.hi < length
                /\ length <= 100 => s.lo = 100 /\ s.hi = 100
        IN  /\ (r.suggested_size /= None) <=> ~r.has_enough
            /\ r.has_enough <=> (e.k < 102400 \/ (e.k = 102400 /\ e.b = 0))
            /\ ~r.has_enough =>
                  /\ Shrunk(r.suggested_size.width, memory.image_width)
                  /\ Shrunk(r.suggested_size.height, memory.image_height)

\* C18 witness: a 100 x 400000 image (120 MB of source pixels) has not enough
\* memory; the suggested width is 100, the input width, and the suggested
\* height is below the input height.
C18_Witness ==
    /\ Returned
    /\ <<memory.image_width, memory.image_height>> = <<100, 400000>>
    /\ ~memory.result.has_enough
    /\ memory.result.suggested_size.width = [lo |-> 100, hi |-> 100]
    /\ memory.result.suggested_size.height.hi < 400000
    /\ memory.result.suggested_size.height.lo > 100

\* C18 as stated: whenever has_enough is false the suggested width and height
\* are both strictly smaller than the input's.
C18_AsStated ==
    (Returned /\ ~memory.result.has_enough) =>
        /\ memory.result.suggested_size.width.hi < memory.image_width
        /\ memory.result.suggested_size.height.hi < memory.image_height

----------------------------------------------------------------------------
(* The sample count and the carry of write_tone and write_tone_with_phase   *)
(* on their own, followed tone by tone from a reset, with the rounding of   *)
(* the f64 carry.  SampleCount keeps the carry as an exact fraction; in f64 *)
(* a carry whose exact value is a whole number may come out just under it,  *)
(* and the sample it stands for is then appended by the next tone that      *)
(* moves the carry.  A carry of CarryScale stands for "just under 1".       *)

\* sample_rate * duration_ms / 1000.0 is computed exactly for durations that
\* are a whole number of sixteenths of a millisecond, and rounded otherwise.
InexactDur(dur) == dur % (DurScale \div 16) /= 0

\* The count and carry without the compensation, as in SampleCount_no_compensation.
SampleCountF64_no_compensation(sr, dur, delta, inexact, below) ==
    SampleCount_no_compensation(sr, dur, delta)

\* The sample count of a tone and the carry it leaves, in f64.  inexact: some
\* addend of the carry was rounded; below: a carry that is a whole number in
\* exact arithmetic comes out just under it.
SampleCountF64(sr, dur, delta, inexact, below) ==
    LET e == ExactSamples(sr, dur)
        c == SampleCount(sr, dur, delta)
        untouched == e.frac = 0 /\ ~InexactDur(dur)
        under == IF untouched THEN delta = CarryScale ELSE below
    IN  IF c.delta = 0 /\ c.n > 0 /\ (inexact \/ InexactDur(dur)) /\ under
        THEN [n |-> c.n - 1, delta |-> CarryScale]
        ELSE c

\* Durations of the tones and sample rates followed.
CarryDurations == {Ms(200), Ms4(2, 800), Ms4(0, 1900), Ms4(1, 5000)}
CarryRates == {6000, 11025}

\* This many tones are followed after the reset.
MaxTones == 20

\* The reset of modulate_image: an empty buffer and a carry of 0.
CarryReset(sr) ==
    /\ carry = None
    /\ carry' = [sample_rate |-> sr, tones |-> 0, n |-> 0, delta |-> 0,
                 inexact |-> FALSE, whole |-> 0, frac |-> 0]
    /\ UNCHANGED <<modulator_vars, generator, fit, timer, memory, colour, complete>>

\* One tone request: n and delta as the code leaves them, whole and frac the
\* exact sum of sample_rate * duration_ms / 1000 over the tones so far.
CarryTone(dur, below) ==
    /\ carry /= None
    /\ carry.tones < MaxTones
    /\ LET c == SampleCountF64(carry.sample_rate, dur, carry.delta, carry.inexact, below)
           e == ExactSamples(carry.sample_rate, dur)
       IN  carry' = [carry EXCEPT
                       !.tones = @ + 1,
                       !.n = @ + c.n,
                       !.delta = c.delta,
                       !.inexact = @ \/ InexactDur(dur),
                       !.whole = @ + e.whole + ((carry.frac + e.frac) \div CarryScale),
                       !.frac = (carry.frac + e.frac) % CarryScale]
    /\ UNCHANGED <<modulator_vars, generator, fit, timer, memory, colour, complete>>

NextCarry ==
    \/ \E sr \in CarryRates : CarryReset(sr)
    \/ \E dur \in CarryDurations, below \in BOOLEAN : CarryTone(dur, below)

SpecCarry == Init /\ [][NextCarry]_vars

\* C19 (as amended): after any sequence of tone requests since the reset the
\* carry is at least 0 and below 1, and the number of samples in the buffer
\* plus the carry is the sum of the exact sample counts of the tones: the
\* number of samples is the floor of that sum and the carry its fractional
\* part, except where the sum is a whole number and the f64 carry came out
\* just under 1: the buffer is then one sample short of the sum until the
\* next tone that moves the carry.
C19_CarryCompensation ==
    carry /= None =>
        /\ 0 <= carry.delta /\ carry.delta <= CarryScale
        /\ \/ carry.n = carry.whole /\ carry.delta = carry.frac
           \/ /\ carry.n = carry.whole - 1
              /\ carry.frac = 0
              /\ carry.delta = CarryScale
              /\ carry.inexact

\* C19 witness: at 6000 Hz, a 2.08 ms tone and eighteen 0.19 ms tones (the
\* porch and the first pixels of a PD120 row) sum to 33 samples exactly; the
\* buffer holds 32 and the carry is just under 1.
C19_Witness ==
    /\ carry /= None
    /\ carry.sample_rate = 6000
    /\ carry.tones = 19
    /\ carry.whole = 33 /\ carry.frac = 0
    /\ carry.n = 32
    /\ carry.delta = CarryScale

\* C19 as stated: after every tone the number of samples is the floor of the
\* exact sum and the carry, below 1, is its fractional part.
C19_AsStated ==
    carry /= None =>
        /\ carry.n = carry.whole
        /\ carry.delta = carry.frac
        /\ carry.delta < CarryScale

----------------------------------------------------------------------------
(* Claims about the explicit-phase tone *)

\* The tones of the last run issued by a direct call of write_tone_with_phase.
ExplicitPhaseTones == {k \in 1..Len(tone_log) : tone_log[k].via = "write_tone_with_phase"}

\* C20: a ScottieDx run calls write_tone_with_phase directly exactly once,
\* for the 1200 Hz/9 ms sync with phi = 0 that precedes row 0 (tone 23, right
\* after the header and right before the first 1500 Hz/1.5 ms separator); a run
\* of Robot36, Pd120 or MartinM1 never does.  That tone takes its sample count
\* from the carry the header left and leaves the carry, the last value and the
\* last cosine of its own final phase to the tone after it.
C20_ExplicitPhaseOnce ==
    RunLogged =>
        /\ mode /= "ScottieDx" => ExplicitPhaseTones = {}
        /\ mode = "ScottieDx" =>
              LET t == tone_log[23]
                  c == SampleCount(sample_rate, t.dur, tone_log[22].delta)
                  final_phase == PhaseAt(sample_rate, t.freq, c.n, 0)
              IN  /\ ExplicitPhaseTones = {23}
                  /\ <<t.freq, t.dur, t.phi>> = <<Hz(1200), Ms(9), 0>>
                  /\ <<tone_log[24].freq, tone_log[24].dur>> = <<Hz(1500), Ms4(1, 5000)>>
                  /\ <<t.n, t.delta>> = <<c.n, c.delta>>
                  /\ <<t.end_data, t.end_cos>> = <<Sin(final_phase), Cos(final_phase)>>
                  /\ <<tone_log[24].prev_data, tone_log[24].prev_cos>>
                        = <<t.end_data, t.end_cos>>
                  /\ tone_log[24].first = t.first + t.n

\* C20 witness: a ScottieDx run at 1050 Hz, where the sync's 9.45 samples move
\* the carry and its final phase is not the phase it started from.
C20_Witness ==
    /\ RunLogged
    /\ mode = "ScottieDx"
    /\ sample_rate = 1050
    /\ ExplicitPhaseTones = {23}
    /\ tone_log[23].delta /= tone_log[22].delta
    /\ tone_log[23].n = 9
    /\ tone_log[23].end_data /= 0
    /\ tone_log[24].prev_data = tone_log[23].end_data

----------------------------------------------------------------------------
(* Claims about the scan of each mode.  The scan of a completed run is the  *)
(* part of tone_log after the 22 tones of the opening silence and the VIS   *)
(* header and before the 6 tones of the end sequence and closing silence.   *)

\* The j-th tone (from 1) of the scan of the last run, as <<frequency, duration>>.
ScanTone(j) == <<tone_log[22 + j].freq, tone_log[22 + j].dur>>
ScanLen == Len(tone_log) - 28

\* The frequency 1500 + value * 3.1372549 of an 8-bit channel value.
ChannelFreq(value) == ColorFreq(value * ValScale)

\* The 0-based channel of the fitted image at column col of a row.
Channel(col, row, index) == get_pixel(processed_image, col, row)[index + 1]

\* C21: the scan of a ScottieDx run is one 1200 Hz/9 ms sync, then for each
\* row 0..height-1 in increasing order: separator 1500/1.5 ms, one 1.08 ms tone
\* per pixel for green from left to right, separator, one per pixel for blue,
\* sync 1200/9 ms, separator, one per pixel for red; the scan has
\* 1 + height*(3*width + 4) tones, after which the end tones follow.
C21_ScottieDxScan ==
    (RunLogged /\ mode = "ScottieDx") =>
        LET width == processed_image.width
            height == processed_image.height
            per_row == 3 * width + 4
            At(row, j) == ScanTone(1 + row * per_row + j)
            separator == <<Hz(1500), Ms4(1, 5000)>>
            sync == <<Hz(1200), Ms(9)>>
        IN  /\ ScanLen = 1 + height * per_row
            /\ ScanTone(1) = sync
            /\ \A row \in 0..(height - 1) :
                  /\ At(row, 1) = separator
                  /\ \A col \in 0..(width - 1) :
                        At(row, 2 + col) = <<ChannelFreq(Channel(col, row, 1)), Ms4(1, 800)>>
                  /\ At(row, width + 2) = separator
                  /\ \A col \in 0..(width - 1) :
                        At(row, width + 3 + col)
                           = <<ChannelFreq(Channel(col, row, 2)), Ms4(1, 800)>>
                  /\ At(row, 2 * width + 3) = sync
                  /\ At(row, 2 * width + 4) = separator
                  /\ \A col \in 0..(width - 1) :
                        At(row, 2 * width + 5 + col)
                           = <<ChannelFreq(Channel(col, row, 0)), Ms4(1, 800)>>
            /\ ScanTone(ScanLen + 1) = <<Hz(1500), Ms(500)>>

\* C21 witness: a ScottieDx run over a canvas whose pixel (0, 0) is pure red,
\* so that the green, blue and red tones of that pixel differ.
C21_Witness ==
    /\ RunLogged
    /\ mode = "ScottieDx"
    /\ processed_image.height >= 2
    /\ get_pixel(processed_image, 0, 0) = <<255, 0, 0>>
    /\ ScanTone(3)[1] = Hz(1500)
    /\ ScanTone(2 * processed_image.width + 6)[1] > Hz(2299)

\* The sum of the durations of the scan tones first..last.
RECURSIVE ScanDuration(_, _)
ScanDuration(first, last) ==
    IF first > last THEN 0 ELSE ScanTone(last)[2] + ScanDuration(first, last - 1)

\* C22: in the scan of a Robot36 run every row is sync 1200/9 ms, porch
\* 1500/3 ms, a 0.275 ms luminance tone per pixel, then on even rows separator
\* 1500/4.5 ms, porch 1900/1.5 ms and a 0.1375 ms R-Y tone per pixel, and on odd
\* rows separator 2300/4.5 ms, porch 1900/1.5 ms and a 0.1375 ms B-Y tone per
\* pixel; the rows follow in increasing order and each lasts 18 ms plus
\* 0.4125 ms per pixel.
C22_Robot36Scan ==
    (RunLogged /\ mode = "Robot36") =>
        LET width == processed_image.width
            height == processed_image.height
            per_row == 2 * width + 4
            At(row, j) == ScanTone(row * per_row + j)
            even == [row \in 0..(height - 1) |-> row % 2 = 0]
        IN  /\ ScanLen = height * per_row
            /\ \A row \in 0..(height - 1) :
                  /\ At(row, 1) = <<Hz(1200), Ms(9)>>
                  /\ At(row, 2) = <<Hz(1500), Ms(3)>>
                  /\ \A col \in 0..(width - 1) :
                        At(row, 3 + col)
                           = <<ColorFreq(get_y_value(processed_image, col, row)),
                               Ms4(0, 2750)>>
                  /\ At(row, width + 3)
                        = <<IF even[row] THEN Hz(1500) ELSE Hz(2300), Ms4(4, 5000)>>
                  /\ At(row, width + 4) = <<Hz(1900), Ms4(1, 5000)>>
                  /\ \A col \in 0..(width - 1) :
                        At(row, width + 5 + col)
                           = <<ColorFreq(IF even[row]
                                         THEN ry_avg(processed_image, col, row)
                                         ELSE by_avg(processed_image, col, row)),
                               Ms4(0, 1375)>>
                  /\ ScanDuration(row * per_row + 1, (row + 1) * per_row)
                        = Ms(18) + width * Ms4(0, 4125)

\* C22 witness: a Robot36 run with an even and an odd row, whose odd row sends
\* a B-Y tone that differs from the R-Y tone of the same pixels.
C22_Witness ==
    /\ RunLogged
    /\ mode = "Robot36"
    /\ processed_image.height >= 2
    /\ ScanTone(processed_image.width + 3)[1] = Hz(1500)
    /\ ScanTone(3 * processed_image.width + 7)[1] = Hz(2300)
    /\ ColorFreq(by_avg(processed_image, 0, 1)) /= ColorFreq(ry_avg(processed_image, 0, 1))
    /\ ScanTone(3 * processed_image.width + 9)[1] = ColorFreq(by_avg(processed_image, 0, 1))

\* C23: the scan of a PD120 run visits the rows N = 0, 2, 4, ... below the
\* height in increasing order; each visit is long sync 1200/20 ms, porch
\* 1500/2.08 ms, then 0.19 ms tones per pixel: the luminance of row N, the R-Y
\* and then the B-Y averaged over rows N and N+1, and the luminance of row N+1
\* when N+1 < height and nothing otherwise.  The luminance tones of the scan
\* are those of rows 0, 1, ..., height-1 in this order, once each, and every
\* value sent is taken from rows below the height.
C23_Pd120Scan ==
    (RunLogged /\ mode = "Pd120") =>
        LET width == processed_image.width
            height == processed_image.height
            per_visit == 4 * width + 2
            visits == {N \in 0..(height - 1) : N % 2 = 0}
            At(N, j) == ScanTone((N \div 2) * per_visit + j)
            pixel == Ms4(0, 1900)
            Luminance(row, col) ==
                <<ColorFreq(get_y_value(processed_image, col, row)), pixel>>
            \* where the luminance tone of a pixel is in the scan
            LuminanceAt(row, col) ==
                (row \div 2) * per_visit + 3 + col + (IF row % 2 = 0 THEN 0 ELSE 3 * width)
        IN  /\ ScanLen = 2 * Cardinality(visits) + 2 * width * Cardinality(visits)
                           + width * height
            /\ \A N \in visits :
                  /\ At(N, 1) = <<Hz(1200), Ms(20)>>
                  /\ At(N, 2) = <<Hz(1500), Ms4(2, 800)>>
                  /\ \A col \in 0..(width - 1) :
                        /\ At(N, 3 + col) = Luminance(N, col)
                        /\ At(N, width + 3 + col)
                              = <<ColorFreq(ry_avg(processed_image, col, N)), pixel>>
                        /\ At(N, 2 * width + 3 + col)
                              = <<ColorFreq(by_avg(processed_image, col, N)), pixel>>
                        /\ N + 1 < height => At(N, 3 * width + 3 + col) = Luminance(N + 1, col)
            /\ \A row \in 0..(height - 1), col \in 0..(width - 1) :
                  /\ LuminanceAt(row, col) \in 1..ScanLen
                  /\ ScanTone(LuminanceAt(row, col)) = Luminance(row, col)
                  /\ row + 1 < height => LuminanceAt(row, col) < LuminanceAt(row + 1, 0)

\* C23 witness: a PD120 run of two visits or more in which the luminance of
\* row 1 differs from that of row 0 and from both averaged chrominances.
C23_Witness ==
    /\ RunLogged
    /\ mode = "Pd120"
    /\ processed_image.height >= 4
    /\ ScanLen = (processed_image.height \div 2) * (4 * processed_image.width + 2)
    /\ get_y_value(processed_image, 0, 1) /= get_y_value(processed_image, 0, 0)
    /\ ScanTone(3 * processed_image.width + 3)[1]
          = ColorFreq(get_y_value(processed_image, 0, 1))
    /\ ScanTone(3 * processed_image.width + 3)[1] /= ScanTone(2 * processed_image.width + 3)[1]
    /\ ScanTone(4 * processed_image.width + 3) = <<Hz(1200), Ms(20)>>

\* C24: the scan of a MartinM1 run is, for each row 0..height-1 in increasing
\* order: sync 1200/4.862 ms, separator 1500/0.572 ms, then for green, blue and
\* red in this order one 0.4576 ms tone per pixel of that channel from left to
\* right followed by a separator 1500/0.572 ms; a row has 2 + 3*(width + 1)
\* tones and the end tones follow the last row.
C24_MartinM1Scan ==
    (RunLogged /\ mode = "MartinM1") =>
        LET width == processed_image.width
            height == processed_image.height
            per_row == 2 + 3 * (width + 1)
            At(row, j) == ScanTone(row * per_row + j)
            separator == <<Hz(1500), Ms4(0, 5720)>>
            \* the 0-based channel index of the k-th channel sent
            order == <<1, 2, 0>>
        IN  /\ ScanLen = height * per_row
            /\ \A row \in 0..(height - 1) :
                  /\ At(row, 1) = <<Hz(1200), Ms4(4, 8620)>>
                  /\ At(row, 2) = separator
                  /\ \A k \in 1..3 :
                        /\ \A col \in 0..(width - 1) :
                              At(row, 2 + (k - 1) * (width + 1) + col + 1)
                                 = <<ChannelFreq(Channel(col, row, order[k])), Ms4(0, 4576)>>
                        /\ At(row, 2 + k * (width + 1)) = separator
            /\ ScanTone(ScanLen + 1) = <<Hz(1500), Ms(500)>>

\* C24 witness: a MartinM1 run of two rows or more whose pixel (1, 0) is pure
\* green, so that its first channel tone is at 2300 Hz and the other two at 1500 Hz.
C24_Witness ==
    /\ RunLogged
    /\ mode = "MartinM1"
    /\ processed_image.height >= 2
    /\ processed_image.width >= 2
    /\ get_pixel(processed_image, 1, 0) = <<0, 255, 0>>
    /\ ScanTone(4)[1] > Hz(2299)
    /\ ScanTone(processed_image.width + 5)[1] = Hz(1500)
    /\ ScanTone(2 * processed_image.width + 6)[1] = Hz(1500)

----------------------------------------------------------------------------
(* Claims about the values sent *)

\* The colour differences of a pixel of the fitted image, and what the claim
\* says is sent for them: the mean with the pixel below, or the value itself
\* on the last row.
RYOf(col, row) == get_ry_value(processed_image, col, row)
BYOf(col, row) == get_by_value(processed_image, col, row)
MeanRY(col, row) ==
    IF row + 1 < processed_image.height
    THEN (RYOf(col, row) + RYOf(col, row + 1)) \div 2
    ELSE RYOf(col, row)
MeanBY(col, row) ==
    IF row + 1 < processed_image.height
    THEN (BYOf(col, row) + BYOf(col, row + 1)) \div 2
    ELSE BYOf(col, row)

\* C25: every chrominance tone of a Robot36 or PD120 run carries, for its
\* column c and row r, the mean of the colour difference of pixels (c, r) and
\* (c, r+1) when r+1 < height and the colour difference of pixel (c, r) when r
\* is the last row; only rows 0..height-1 enter the values sent.
C25_ChrominanceAveraging ==
    LET width == processed_image.width
        height == processed_image.height
    IN  /\ (RunLogged /\ mode = "Robot36") =>
              \A row \in 0..(height - 1), col \in 0..(width - 1) :
                  ScanTone(row * (2 * width + 4) + width + 5 + col)[1]
                     = ColorFreq(IF row % 2 = 0 THEN MeanRY(col, row) ELSE MeanBY(col, row))
        /\ (RunLogged /\ mode = "Pd120") =>
              \A row \in {N \in 0..(height - 1) : N % 2 = 0}, col \in 0..(width - 1) :
                  /\ ScanTone((row \div 2) * (4 * width + 2) + width + 3 + col)[1]
                        = ColorFreq(MeanRY(col, row))
                  /\ ScanTone((row \div 2) * (4 * width + 2) + 2 * width + 3 + col)[1]
                        = ColorFreq(MeanBY(col, row))

\* C25 witness: a Robot36 run in which row 0 sends the mean of two different
\* R-Y values and the last row, having no row below it, sends the colour
\* difference of its own pixel, which is not that of a black pixel.
C25_Witness ==
    /\ RunLogged
    /\ mode = "Robot36"
    /\ processed_image.height >= 2
    /\ RYOf(0, 0) /= RYOf(0, 1)
    /\ MeanRY(0, 0) /= RYOf(0, 0)
    /\ LET last == processed_image.height - 1
           own == IF last % 2 = 0 THEN RYOf(0, last) ELSE BYOf(0, last)
       IN  /\ own /= 128 * ValScale
           /\ ScanTone(last * (2 * processed_image.width + 4) + processed_image.width + 5)[1]
                 = ColorFreq(own)

----------------------------------------------------------------------------
(* The scan of one row over the palette picture: one pass of the body of    *)
(* the mode's row loop, on an image in which every palette pixel stands     *)
(* above and below every other one.                                         *)

PaletteImage ==
    [width |-> PaletteSize, height |-> 2 * PaletteSize, background |-> <<0, 0, 0>>,
     offset_x |-> 0, offset_y |-> 0,
     scaled_width |-> PaletteSize, scaled_height |-> 2 * PaletteSize,
     picture |-> "palette"]

\* The rows the mode's loop visits.
VisitedRows(m, image) == {row \in 0..(image.height - 1) : row % RowStep(m) = 0}

ScanRow(row) ==
    /\ colour = None
    /\ colour' = [mode |-> mode, row |-> row, tones |-> RowTones(mode, PaletteImage, row)]
    /\ UNCHANGED <<modulator_vars, generator, fit, timer, memory, carry, complete>>

NextColour == \E row \in VisitedRows(mode, PaletteImage) : ScanRow(row)

SpecColour == Init /\ [][NextColour]_vars

\* The duration of the tones that carry a pixel value: ScottieDx 1.08 ms,
\* Robot36 0.275 ms (luminance) and 0.1375 ms (chrominance), PD120 0.19 ms,
\* MartinM1 0.4576 ms.
PixelDurations(m) ==
    CASE m = "ScottieDx" -> {Ms4(1, 800)}
      [] m = "Robot36"   -> {Ms4(0, 2750), Ms4(0, 1375)}
      [] m = "Pd120"     -> {Ms4(0, 1900)}
      [] m = "MartinM1"  -> {Ms4(0, 4576)}

\* The frequencies of the tones of the scanned row that carry a pixel value.
PixelFreqs ==
    {colour.tones[k].freq : k \in {j \in 1..Len(colour.tones) :
                                      colour.tones[j].dur \in PixelDurations(colour.mode)}}

\* The values the mode sends for a column of the scanned row: the channels in
\* ScottieDx and MartinM1; in Robot36 the luminance and the averaged R-Y (even
\* row) or B-Y (odd row); in PD120 the luminance of the row and of the row
\* below it and both averaged colour differences.
ValuesSent(m, col, row) ==
    LET image == PaletteImage
        below == IF row + 1 < image.height THEN row + 1 ELSE row
        Mean(a, b) == (a + b) \div 2
        ry == Mean(get_ry_value(image, col, row), get_ry_value(image, col, below))
        by == Mean(get_by_value(image, col, row), get_by_value(image, col, below))
    IN  CASE m \in {"ScottieDx", "MartinM1"} ->
                {get_pixel(image, col, row)[i] * ValScale : i \in 1..3}
          [] m = "Robot36" ->
                {get_y_value(image, col, row), IF row % 2 = 0 THEN ry ELSE by}
          [] m = "Pd120" ->
                {get_y_value(image, col, row), get_y_value(image, col, below), ry, by}

\* C26: every tone of a scanned row that carries a pixel value has the
\* frequency 1500 + value * 3.1372549 Hz of one of the values the mode sends
\* for a column of that row, and that frequency is at least 1500 Hz and at
\* most 2300 Hz, hence above the 1200 Hz of the sync; this for every pair of
\* palette pixels one above the other and each of the four modes.
C26_ScanFrequencyRange ==
    colour /= None =>
        /\ PixelFreqs /= {}
        /\ \A f \in PixelFreqs :
              /\ \E col \in 0..(PaletteImage.width - 1) :
                    \E value \in ValuesSent(colour.mode, col, colour.row) :
                        f = ColorFreq(value)
              /\ Hz(1500) <= f
              /\ f <= Hz(2300)
              /\ f > Hz(1200)

\* C26 witness: a PD120 row scanned over the palette whose tones reach from
\* the luminance of black (1550.19 Hz) to the R-Y of pure red above pure red
\* (2252.94 Hz).
C26_Witness ==
    /\ colour /= None
    /\ colour.mode = "Pd120"
    /\ 155019 \in PixelFreqs
    /\ \E f \in PixelFreqs : f > Hz(2252)

----------------------------------------------------------------------------
(* Claims about the placement of the resized image *)

\* The columns (or rows) that decide a canvas axis: its first and last, and
\* those on either side of each edge of the span [offset, offset + scaled).
EdgesOf(length, offset, scaled) ==
    {0, offset - 1, offset, offset + scaled - 1, offset + scaled, length - 1}
        \cap (0..(length - 1))

\* C27: the offsets are (target - scaled) / 2 rounded down on both axes, so
\* that left <= right <= left + 1 and top <= bottom <= top + 1; the pasted
\* pixels (offset_x + x, offset_y + y), x < scaled_width, y < scaled_height, lie
\* inside the canvas; and the canvas pixels outside the rectangle
\* [offset_x, offset_x + scaled_width) x [offset_y, offset_y + scaled_height)
\* are black, which is looked at in the first and last column and row of the
\* canvas and in the columns and rows on either side of each edge of the
\* rectangle.
C27_Placement ==
    fit /= None =>
        LET g == fit.geometry
            image == fit.image
            left == g.black_bars[1]
            top == g.black_bars[2]
            right == g.black_bars[3]
            bottom == g.black_bars[4]
            inside(x, y) ==
                /\ g.offset_x <= x /\ x < g.offset_x + g.scaled_width
                /\ g.offset_y <= y /\ y < g.offset_y + g.scaled_height
        IN  /\ 2 * g.offset_x <= g.target_width - g.scaled_width
            /\ g.target_width - g.scaled_width <= 2 * g.offset_x + 1
            /\ 2 * g.offset_y <= g.target_height - g.scaled_height
            /\ g.target_height - g.scaled_height <= 2 * g.offset_y + 1
            /\ <<left, top>> = <<g.offset_x, g.offset_y>>
            /\ left <= right /\ right <= left + 1
            /\ top <= bottom /\ bottom <= top + 1
            /\ <<image.width, image.height>> = <<g.target_width, g.target_height>>
            /\ <<image.offset_x, image.offset_y>> = <<g.offset_x, g.offset_y>>
            /\ \A x \in {0, g.scaled_width - 1}, y \in {0, g.scaled_height - 1} :
                  (x >= 0 /\ y >= 0) =>
                      /\ g.offset_x + x \in 0..(image.width - 1)
                      /\ g.offset_y + y \in 0..(image.height - 1)
            /\ ~fit.panic =>
                  \A x \in EdgesOf(image.width, g.offset_x, g.scaled_width),
                     y \in EdgesOf(image.height, g.offset_y, g.scaled_height) :
                      ~inside(x, y) => get_pixel(image, x, y) = <<0, 0, 0>>

\* C27 witness: an 11 x 11 source in Robot36 (320 x 240) is pasted 239 x 239
\* at (40, 0), leaving 41 columns to the right and 1 row below: the last pasted
\* pixel (278, 238) is white and the pixels right of it and below it are black.
C27_Witness ==
    /\ fit /= None
    /\ ~fit.panic
    /\ mode = "Robot36"
    /\ <<fit.src_width, fit.src_height>> = <<11, 11>>
    /\ <<fit.geometry.offset_x, fit.geometry.offset_y>> = <<40, 0>>
    /\ fit.geometry.black_bars[3] = fit.geometry.black_bars[1] + 1
    /\ fit.geometry.black_bars[4] = fit.geometry.black_bars[2] + 1
    /\ LET x == fit.geometry.offset_x + fit.geometry.scaled_width - 1
           y == fit.geometry.offset_y + fit.geometry.scaled_height - 1
       IN  /\ get_pixel(fit.image, x, y) = <<255, 255, 255>>
           /\ get_pixel(fit.image, x + 1, y) = <<0, 0, 0>>
           /\ get_pixel(fit.image, x, y + 1) = <<0, 0, 0>>

----------------------------------------------------------------------------
(* Claims about the clears *)

\* C28: a clear_audio_memory call empties the sample buffer, sets the last
\* value to 0, the last cosine to 1 and the carry to 0, and leaves the processed
\* image and the metadata as they were; a clear_image_memory call drops the
\* processed image and the metadata and leaves the buffer, the last value, the
\* last cosine and the carry as they were; after either call the other one
\* gives the state clear_memory gives from the state before the first; and a
\* call of any of the three leaves the mode and the sample rate (the
\* modulator's and the buffer's) as they were.
C28_PartialClears ==
    [][/\ call'.op = "clear_audio_memory" =>
             /\ audio_processor'.samples = <<>>
             /\ <<older_data', older_cos', delta_length'>> = <<0, AmpScale, 0>>
             /\ UNCHANGED <<processed_image, processing_metadata>>
             /\ clear_image_memory(Self') = clear_memory(Self)
       /\ call'.op = "clear_image_memory" =>
             /\ <<processed_image', processing_metadata'>> = <<None, None>>
             /\ UNCHANGED <<audio_processor, older_data, older_cos, delta_length>>
             /\ clear_audio_memory(Self') = clear_memory(Self)
       /\ call'.op = "clear_memory" => Self' = clear_memory(Self)
       /\ call'.op \in {"clear_memory", "clear_audio_memory", "clear_image_memory"} =>
             /\ UNCHANGED <<mode, sample_rate>>
             /\ audio_processor'.sample_rate = audio_processor.sample_rate
      ]_vars

\* C28 witness: clear_audio_memory was called on a modulator holding the
\* samples, the phase and the carry of a run; the buffer is now empty and the
\* scalars reset, and the fitted image and its metadata are still there.
C28_Witness ==
    /\ call.op = "clear_audio_memory"
    /\ call.before.len > 0
    /\ call.before.older_data /= 0
    /\ call.before.delta_length /= 0
    /\ audio_processor.samples = <<>>
    /\ <<older_data, older_cos, delta_length>> = <<0, AmpScale, 0>>
    /\ processed_image /= None
    /\ processing_metadata /= None

----------------------------------------------------------------------------
(* Memory statistics and the threshold clear *)

\* std::mem::size_of::<ProcessingMetadata>() on a 64-bit target: 65 bytes of
\* fields in 8-byte alignment.
ProcessingMetadataSize == 72

\* get_memory_usage().total_bytes
get_memory_usage(self) ==
    LET audio_samples_bytes == Len(self.audio_processor.samples) * 2
        image_bytes == IF self.processed_image = None THEN 0
                       ELSE self.processed_image.width * self.processed_image.height * 3
    IN  audio_samples_bytes + image_bytes + ProcessingMetadataSize

should_clear_memory(self, threshold_mb) ==
    get_memory_usage(self) > threshold_mb * 1024 * 1024

auto_memory_management(self, threshold_mb) ==
    IF should_clear_memory(self, threshold_mb) THEN clear_memory(self) ELSE self

\* Thresholds given to auto_memory_management, in megabytes: 0 is exceeded by
\* the size of the metadata structure alone, 1 by none of the runs followed here.
Thresholds == {0, 1}

AutoMemoryManagement(threshold_mb) ==
    /\ calls < MaxCalls
    /\ calls' = calls + 1
    /\ Becomes(auto_memory_management(Self, threshold_mb))
    /\ call' = Called("auto_memory_management", <<threshold_mb>>, <<"Ok">>)
    /\ tone_log' = <<>>
    /\ UNCHANGED <<generator, fit, timer, memory, carry, colour, complete>>

NextManage ==
    \/ \E sr \in SampleRates : WithSampleRate(sr)
    \/ \E src \in SaveSources, now \in Clock : ModulateImage(src, now)
    \/ ClearMemory
    \/ ClearAudioMemory
    \/ ClearImageMemory
    \/ \E threshold_mb \in Thresholds : AutoMemoryManagement(threshold_mb)
    \/ \E io \in IoOutcomes : SaveProcessedImage(io)

SpecManage == Init /\ [][NextManage]_vars

\* C29: after any sequence of with_sample_rate, modulate_image, clear_memory,
\* clear_audio_memory, clear_image_memory and auto_memory_management calls
\* since new, with saves between them, the processed image is held exactly
\* when the processing metadata is; and a save with preserve_metadata = true
\* never ends with the missing-metadata error, with or without the image file
\* written.
C29_ImageIffMetadata ==
    /\ (processed_image = None) <=> (processing_metadata = None)
    /\ call.op = "save_processed_image" =>
          /\ ImageSaveConfig_default.preserve_metadata
          /\ call.result[1] = "Err" =>
                call.result[2] /= ImageProcessing("no processing metadata")

\* C29 witness: a save with the default configuration (metadata kept) on a
\* modulator that holds the image and the metadata of a run writes both files.
C29_Witness ==
    /\ call.op = "save_processed_image"
    /\ processed_image /= None
    /\ processing_metadata /= None
    /\ call.result = <<"Ok", {"image", "metadata"}>>

----------------------------------------------------------------------------
(* process_sstv_complete (lib.rs) and the batch_process it calls.  The file *)
(* system is the environment: io is what it does with the files of one      *)
(* call.  Of a call the outcome kept is its Result (the paths and the       *)
(* statistics of a success left out), whether modulate_image ran to its end *)
(* and which output files were written in full.                             *)

Some(v) == [some |-> v]
MemoryError(required) == [kind |-> "MemoryError", required |-> required]
AudioError == [kind |-> "AudioError"]

\* required_mb > limit as f64, required_mb being required / 1024 / 1024
ExceedsMb(required, limit) ==
    \/ required.k > limit * 1024
    \/ required.k = limit * 1024 /\ required.b > 0

\* batch_process on a new modulator: [result, modulated, written]
batch_process(m, src, scaled, image_config, io, now) ==
    LET pre == preprocess_image_with_aspect_ratio(m, get_dimensions(m), src, scaled, now)
        self == [SstvModulator_new(m) EXCEPT !.processed_image = pre.image,
                                             !.processing_metadata = pre.metadata]
        saved == save_processed_image_with_config(self, image_config, io)
    IN  IF io = "create_dir_fails"
        THEN [result |-> <<"Err", IoError>>, modulated |-> FALSE, written |-> {}]
        ELSE IF pre.panic
        THEN [result |-> <<"Panic">>, modulated |-> FALSE, written |-> {}]
        ELSE IF io = "audio_write_fails"
        THEN [result |-> <<"Err", AudioError>>, modulated |-> TRUE, written |-> {}]
        ELSE [result |-> saved.result, modulated |-> TRUE,
              written |-> {"audio"} \cup saved.written]

\* process_sstv_complete: the image is loaded, the memory is checked when a
\* limit is given, and the rest is batch_process on a new modulator (whose
\* memory is cleared before the return).
process_sstv_complete(width, height, m, image_config, memory_limit_mb, scaled, io, now, overflow_checks) ==
    LET checked == check_memory_requirements(width, height, m,
                                             DEFAULT_SAMPLE_RATE, overflow_checks)
    IN  IF io = "load_fails"
        THEN [result |-> <<"Err", ImageProcessing("cannot load image")>>,
              modulated |-> FALSE, written |-> {}]
        ELSE IF memory_limit_mb /= None /\ checked.panic
        THEN [result |-> <<"Panic">>, modulated |-> FALSE, written |-> {}]
        ELSE IF /\ memory_limit_mb /= None
                /\ ~checked.has_enough
                /\ ExceedsMb(checked.required, memory_limit_mb.some)
        THEN [result |-> <<"Err", MemoryError(checked.required)>>,
              modulated |-> FALSE, written |-> {}]
        ELSE batch_process(m, [width |-> width, height |-> height,
                               picture |-> "mixed"],
                           scaled, image_config, io, now)

\* The sides of the images loaded (a 4000 x 8000 image is estimated just under
\* 100 MB, an 8000 x 8000 one at about 184 MB), the limits given in
\* megabytes, the configurations and what the file system does.
CompleteSides == {100, 2000, 4000, 8000}
MemoryLimits == {None} \cup {Some(limit) : limit \in {0, 10, 50, 100, 200}}
CompleteConfigs == {ImageSaveConfig_default} \cup SaveConfigs
CompleteIo == {"ok", "load_fails", "create_dir_fails", "audio_write_fails"} \cup IoOutcomes

ProcessSstvComplete(width, height, m, image_config, memory_limit_mb, io, overflow_checks) ==
    \E scaled \in ScaledSizes(get_dimensions(m), width, height), now \in Clock :
        /\ complete' =
              [image_width |-> width, image_height |-> height, mode |-> m,
               image_config |-> image_config, memory_limit_mb |-> memory_limit_mb,
               io |-> io, overflow_checks |-> overflow_checks,
               outcome |-> process_sstv_complete(width, height, m,
                                                 image_config, memory_limit_mb, scaled, io,
                                                 now, overflow_checks)]
        /\ UNCHANGED <<modulator_vars, generator, fit, timer, memory, carry, colour>>

NextComplete ==
    /\ complete = None
    /\ \E image_width \in CompleteSides, image_height \in CompleteSides, m \in Modes,
          image_config \in CompleteConfigs, memory_limit_mb \in MemoryLimits,
          io \in CompleteIo, overflow_checks \in BOOLEAN :
          ProcessSstvComplete(image_width, image_height, m, image_config,
                              memory_limit_mb, io, overflow_checks)

SpecComplete == Init /\ [][NextComplete]_vars

----------------------------------------------------------------------------
(* Claims about process_sstv_complete *)

\* The estimate for the image and the mode of the last call, at the default
\* sample rate.
CompleteEstimate ==
    estimate_memory_usage(complete.image_width, complete.image_height, complete.mode,
                          DEFAULT_SAMPLE_RATE, complete.overflow_checks)

Loaded == complete /= None /\ complete.io /= "load_fails"

\* C30 as stated: when the image was loaded, a limit of L megabytes is given
\* and the estimate for the image and the mode exceeds L megabytes, the call
\* returns MemoryError with the estimated byte count, no modulation having run
\* and no file written; and without a limit it never returns MemoryError.
C30_AsStated ==
    Loaded =>
        /\ (complete.memory_limit_mb /= None
              /\ ExceedsMb(CompleteEstimate, complete.memory_limit_mb.some)) =>
                 /\ complete.outcome.result
                       = <<"Err", MemoryError([k |-> CompleteEstimate.k,
                                               b |-> CompleteEstimate.b])>>
                 /\ ~complete.outcome.modulated
                 /\ complete.outcome.written = {}
        /\ complete.memory_limit_mb = None =>
              (complete.outcome.result[1] = "Err" =>
                  complete.outcome.result[2].kind /= "MemoryError")

\* What the code does: MemoryError is returned exactly when a limit is given
\* and the estimate exceeds both that limit and the fixed 100 MB of
\* check_memory_requirements.
MemoryErrorAboveBothLimits ==
    Loaded =>
        ((/\ complete.outcome.result[1] = "Err"
          /\ complete.outcome.result[2].kind = "MemoryError")
         <=> (/\ complete.memory_limit_mb /= None
              /\ ExceedsMb(CompleteEstimate, complete.memory_limit_mb.some)
              /\ ExceedsMb(CompleteEstimate, 100)))

=============================================================================
